---- MODULE Spec2Model ----
(***************************************************************************)
(* Route realization engine of metalnet (metalbond/metalbond_client.go):   *)
(* AddRoute / RemoveRoute fan-out over peered VNIs and the cleanup pass     *)
(* CleanupNotPeeredRoutes, run against a model of the dataplane service's   *)
(* route, NAT and load-balancer-target tables and of the topology cache.    *)
(***************************************************************************)
EXTENDS Integers, Sequences, FiniteSets, TLC

VARIABLES
    dataplane,  \* tables of the dataplane service: routes, nats, lbTargets
    cache,      \* topology cache: peerVnis, peeredPrefixes, lbServers
    config,     \* ClientOptions: IPv4Only, PreferredNetwork
    last,       \* the last operation: arguments, returned error, attempts made
    pre,        \* the dataplane tables as they were before the last operation
    prev,       \* summary of the step before the last one
    scope,      \* which inputs this behaviour draws: "kinds", "faults" or "peering"
    nSteps,     \* number of steps taken so far
    backend,    \* the dataplane service behind the translation layer
    xl,         \* the last operation of the translation layer
    inv,        \* the invocations of AddRoute/RemoveRoute running concurrently
    cl,         \* the cleanup pass in progress
    race        \* the route event whose fan-out raced with a topology change

vars ==
    <<dataplane, cache, config, last, pre, prev, scope, nSteps, backend, xl, inv, cl, race>>

(***************************************************************************)
(* Bounds of the model.                                                    *)
(***************************************************************************)
MaxSteps == 2

(***************************************************************************)
(* Addresses, prefixes, destinations and next hops.                        *)
(***************************************************************************)
VNIs == {100, 200, 300}

V4(a, b, c, d) == [ver |-> 4, o |-> <<a, b, c, d>>]
V6(hi, lo) == [ver |-> 6, o |-> <<hi, 1, 13, 184, 0, 0, 0, 0, 0, 0, 0, 0, 0, 0, 0, lo>>]

MkPrefix(a, n) == [addr |-> a, bits |-> n]

Addr4In == V4(10, 0, 0, 5)
Addr4Out == V4(192, 168, 1, 1)
Addr6 == V6(32, 9)
Underlay1 == V6(252, 1)
Underlay2 == V6(253, 2)

Filter24 == MkPrefix(V4(10, 0, 0, 0), 24)
PreferredNet == MkPrefix(V6(252, 0), 8)

\* mb.Destination{IPVersion, Prefix}
Dest4In == [IPVersion |-> "IPV4", Prefix |-> MkPrefix(Addr4In, 32)]
Dest4Out == [IPVersion |-> "IPV4", Prefix |-> MkPrefix(Addr4Out, 32)]
Dest6 == [IPVersion |-> "IPV6", Prefix |-> MkPrefix(Addr6, 128)]
Dests == {Dest4In, Dest4Out, Dest6}

\* mb.NextHop{TargetAddress, TargetVNI, Type, NATPortRangeFrom, NATPortRangeTo}
MkHop(t, a, v, f, u) ==
    [Type |-> t, TargetAddress |-> a, TargetVNI |-> v,
     NATPortRangeFrom |-> f, NATPortRangeTo |-> u]

HopStd1 == MkHop("STANDARD", Underlay1, 0, 0, 0)
HopStd2 == MkHop("STANDARD", Underlay2, 400, 0, 0)
HopLb1 == MkHop("LOADBALANCER_TARGET", Underlay1, 0, 0, 0)
HopLb2 == MkHop("LOADBALANCER_TARGET", Underlay2, 0, 0, 0)
HopNat == MkHop("NAT", Underlay1, 0, 1024, 2048)
Hops == {HopStd1, HopStd2, HopLb1, HopLb2, HopNat}

RECURSIVE Pow2(_)
Pow2(n) == IF n = 0 THEN 1 ELSE 2 * Pow2(n - 1)

\* number of bits of octet i covered by a mask of the given length
MaskBits(bits, i) ==
    LET rest == bits - 8 * (i - 1)
    IN  IF rest <= 0 THEN 0 ELSE IF rest >= 8 THEN 8 ELSE rest

\* netip.Prefix.Contains / net.IPNet.Contains: same family, equal under the mask
PrefixContains(p, ip) ==
    /\ p.addr.ver = ip.ver
    /\ \A i \in 1..Len(ip.o) :
          LET sh == Pow2(8 - MaskBits(p.bits, i))
          IN  (ip.o[i] \div sh) = (p.addr.o[i] \div sh)

\* netip.Addr.String: the family tag followed by the octets
AddrString(a) == <<a.ver>> \o a.o

\* net.ParseIP of a string produced by AddrString
ParseIP(s) == [ver |-> Head(s), o |-> Tail(s)]

(***************************************************************************)
(* Errors.  A Go error is modelled by its message and its cause; NilErr is *)
(* the nil error.                                                          *)
(***************************************************************************)
NilErr == [msg |-> "nil", cause |-> "nil"]
MkErr(m, c) == [msg |-> m, cause |-> c]

\* fmt.Errorf("...: %w", err) around the error of a dataplane client call
Wrap(m, cause) == IF cause = "nil" THEN NilErr ELSE MkErr(m, cause)

(***************************************************************************)
(* Backend faults.  During one engine operation the dataplane service may  *)
(* fail the calls of one kind aimed at one VNI, either at transport level  *)
(* or with a status code that no ignore list names.                        *)
(***************************************************************************)
NoFault == [vni |-> 0, kind |-> "none", call |-> "none"]
Faults ==
    {NoFault} \cup [vni : VNIs, kind : {"transport", "status"}, call : {"mutate", "list"}]

FaultStatus(fault, vni, call) ==
    IF fault.vni = vni /\ fault.call = call
    THEN IF fault.kind = "transport" THEN "TRANSPORT" ELSE "INTERNAL"
    ELSE "OK"

(***************************************************************************)
(* The dataplane service: one route per (VNI, prefix), NAT entries keyed   *)
(* by (NAT IP, VNI, port range), load-balancer targets keyed by (LB id,    *)
(* target IP).  Every call answers with a status code.                     *)
(***************************************************************************)
EmptyDataplane == [routes |-> {}, nats |-> {}, lbTargets |-> {}]

RoutesOf(dp, vni) == {r \in dp.routes : r.vni = vni}

DpCreateRoute(dp, vni, prefix, nhVni, nhIp, fault) ==
    LET f == FaultStatus(fault, vni, "mutate")
    IN  IF f # "OK" THEN [dp |-> dp, status |-> f]
        ELSE IF \E r \in dp.routes : r.vni = vni /\ r.prefix = prefix
        THEN [dp |-> dp, status |-> "ROUTE_EXISTS"]
        ELSE [dp |-> [dp EXCEPT !.routes = @ \cup
                        {[vni |-> vni, prefix |-> prefix, nhVni |-> nhVni, nhIp |-> nhIp]}],
              status |-> "OK"]

DpDeleteRoute(dp, vni, prefix, fault) ==
    LET f == FaultStatus(fault, vni, "mutate")
    IN  IF f # "OK" THEN [dp |-> dp, status |-> f]
        ELSE IF RoutesOf(dp, vni) = {} THEN [dp |-> dp, status |-> "NO_VNI"]
        ELSE IF ~ \E r \in dp.routes : r.vni = vni /\ r.prefix = prefix
        THEN [dp |-> dp, status |-> "ROUTE_NOT_FOUND"]
        ELSE [dp |-> [dp EXCEPT !.routes =
                        {r \in @ : ~(r.vni = vni /\ r.prefix = prefix)}],
              status |-> "OK"]

DpListRoutes(dp, vni, fault) ==
    LET f == FaultStatus(fault, vni, "list")
    IN  IF f # "OK" THEN [items |-> {}, status |-> f]
        ELSE [items |-> RoutesOf(dp, vni), status |-> "OK"]

NatKey(n) == <<n.natIP, n.vni, n.minPort, n.maxPort>>

DpCreateNeighborNat(dp, nat, fault) ==
    LET f == FaultStatus(fault, nat.vni, "mutate")
    IN  IF f # "OK" THEN [dp |-> dp, status |-> f]
        ELSE IF \E n \in dp.nats : NatKey(n) = NatKey(nat)
        THEN [dp |-> dp, status |-> "ALREADY_EXISTS"]
        ELSE [dp |-> [dp EXCEPT !.nats = @ \cup {nat}], status |-> "OK"]

DpDeleteNeighborNat(dp, nat, fault) ==
    LET f == FaultStatus(fault, nat.vni, "mutate")
    IN  IF f # "OK" THEN [dp |-> dp, status |-> f]
        ELSE IF ~ \E n \in dp.nats : NatKey(n) = NatKey(nat)
        THEN [dp |-> dp, status |-> "NOT_FOUND"]
        ELSE [dp |-> [dp EXCEPT !.nats = {n \in @ : NatKey(n) # NatKey(nat)}],
              status |-> "OK"]

DpCreateLoadBalancerTarget(dp, vni, lbId, targetIP, fault) ==
    LET f == FaultStatus(fault, vni, "mutate")
        t == [lb |-> lbId, targetIP |-> targetIP]
    IN  IF f # "OK" THEN [dp |-> dp, status |-> f]
        ELSE IF t \in dp.lbTargets THEN [dp |-> dp, status |-> "ALREADY_EXISTS"]
        ELSE [dp |-> [dp EXCEPT !.lbTargets = @ \cup {t}], status |-> "OK"]

DpDeleteLoadBalancerTarget(dp, vni, lbId, targetIP, fault) ==
    LET f == FaultStatus(fault, vni, "mutate")
        t == [lb |-> lbId, targetIP |-> targetIP]
    IN  IF f # "OK" THEN [dp |-> dp, status |-> f]
        ELSE IF ~ \E x \in dp.lbTargets : x.lb = lbId
        THEN [dp |-> dp, status |-> "NO_BACKIP"]
        ELSE IF t \notin dp.lbTargets THEN [dp |-> dp, status |-> "NOT_FOUND"]
        ELSE [dp |-> [dp EXCEPT !.lbTargets = @ \ {t}], status |-> "OK"]

\* A client call made with dpdkerrors.Ignore(codes...): a success or an ignored
\* status code yields no error, anything else (a transport error included) the error.
ClientErr(status, ignored) ==
    IF status = "OK" \/ status \in ignored THEN "nil" ELSE status

(***************************************************************************)
(* The topology cache (internal.MetalnetCache), read-only for the engine.  *)
(***************************************************************************)
GetPeerVnis(vni) == cache.peerVnis[vni]

GetPeeredPrefixes(vni) == cache.peeredPrefixes[vni]

GetLoadBalancerServer(vni, ip) ==
    IF \E e \in cache.lbServers : e.vni = vni /\ e.ip = ip
    THEN [ok |-> TRUE,
          uid |-> (CHOOSE e \in cache.lbServers : e.vni = vni /\ e.ip = ip).uid]
    ELSE [ok |-> FALSE, uid |-> ""]

(***************************************************************************)
(* Single-network realization: addLocalRoute and removeLocalRoute.  Each   *)
(* returns the dataplane after the call, the error, and the dataplane call *)
(* it made (NoCall when it returned before calling).                       *)
(***************************************************************************)
NoCall == [rpc |-> "none"]

Outcome(dp, err, call) == [dp |-> dp, err |-> err, call |-> call]

\* a deviation: the check compares with the wrong IP version
IPv4OnlyRejects_WrongVersion(dest) == config.IPv4Only /\ dest.IPVersion = "IPV4"

\* c.config.IPv4Only && dest.IPVersion != mb.IPV4
IPv4OnlyRejects(dest) == config.IPv4Only /\ dest.IPVersion # "IPV4"

\* c.config.PreferredNetwork != nil && !PreferredNetwork.Contains(ParseIP(target.String()))
OutsidePreferredNetwork(hop) ==
    /\ ~config.PreferredNetwork.nil
    /\ ~PrefixContains(config.PreferredNetwork.net, ParseIP(AddrString(hop.TargetAddress)))

\* deviations: an ignore list that misses a code
CreateRouteIgnore_None == {}
DeleteRouteIgnore_NotFoundOnly == {"ROUTE_NOT_FOUND"}

CreateRouteIgnore == {"ROUTE_EXISTS"}
CreateNatIgnore == {"ALREADY_EXISTS"}
CreateLbTargetIgnore == {"ALREADY_EXISTS"}
DeleteRouteIgnore == {"NO_VNI", "ROUTE_NOT_FOUND"}
DeleteNatIgnore == {"NOT_FOUND"}
DeleteLbTargetIgnore == {"NOT_FOUND", "NO_BACKIP", "NO_LB"}

NatOf(vni, dest, hop) ==
    [natIP |-> dest.Prefix.addr, vni |-> vni, minPort |-> hop.NATPortRangeFrom,
     maxPort |-> hop.NATPortRangeTo, underlayRoute |-> hop.TargetAddress]

\* a deviation: the preferred-network check comes before the lookup of the
\* load-balancer server
addLocalRoute_SkipBeforeLookup(dp, destVni, vni, dest, hop, fault) ==
    IF IPv4OnlyRejects(dest)
    THEN Outcome(dp, MkErr("received non-IPv4 route (IPv4-only mode)", "policy"), NoCall)
    ELSE IF hop.Type = "LOADBALANCER_TARGET"
    THEN LET ip == AddrString(dest.Prefix.addr)
             lb == GetLoadBalancerServer(vni, ip)
         IN  IF OutsidePreferredNetwork(hop)
             THEN Outcome(dp, NilErr, NoCall)
             ELSE IF ~lb.ok
             THEN Outcome(dp, MkErr("no registered LoadBalancer", "topology"), NoCall)
             ELSE LET r == DpCreateLoadBalancerTarget(dp, vni, lb.uid, hop.TargetAddress, fault)
                  IN  Outcome(r.dp,
                              Wrap("error creating lb target",
                                   ClientErr(r.status, CreateLbTargetIgnore)),
                              [rpc |-> "CreateLoadBalancerTarget", vni |-> vni,
                               lb |-> lb.uid, targetIP |-> hop.TargetAddress,
                               status |-> r.status])
    ELSE IF hop.Type = "NAT"
    THEN LET nat == NatOf(vni, dest, hop)
             r == DpCreateNeighborNat(dp, nat, fault)
         IN  Outcome(r.dp,
                     Wrap("error nat route", ClientErr(r.status, CreateNatIgnore)),
                     [rpc |-> "CreateNeighborNat", vni |-> vni, nat |-> nat,
                      status |-> r.status])
    ELSE LET r == DpCreateRoute(dp, vni, dest.Prefix, destVni, hop.TargetAddress, fault)
         IN  Outcome(r.dp,
                     Wrap("error creating route", ClientErr(r.status, CreateRouteIgnore)),
                     [rpc |-> "CreateRoute", vni |-> vni, prefix |-> dest.Prefix,
                      nhVni |-> destVni, nhIp |-> hop.TargetAddress,
                      status |-> r.status])

\* a deviation: the route carries the target VNI of the next hop, not destVni
addLocalRoute_TargetVNI(dp, destVni, vni, dest, hop, fault) ==
    IF IPv4OnlyRejects(dest)
    THEN Outcome(dp, MkErr("received non-IPv4 route (IPv4-only mode)", "policy"), NoCall)
    ELSE IF hop.Type = "LOADBALANCER_TARGET"
    THEN LET ip == AddrString(dest.Prefix.addr)
             lb == GetLoadBalancerServer(vni, ip)
         IN  IF ~lb.ok
             THEN Outcome(dp, MkErr("no registered LoadBalancer", "topology"), NoCall)
             ELSE IF OutsidePreferredNetwork(hop)
             THEN Outcome(dp, NilErr, NoCall)
             ELSE LET r == DpCreateLoadBalancerTarget(dp, vni, lb.uid, hop.TargetAddress, fault)
                  IN  Outcome(r.dp,
                              Wrap("error creating lb target",
                                   ClientErr(r.status, CreateLbTargetIgnore)),
                              [rpc |-> "CreateLoadBalancerTarget", vni |-> vni,
                               lb |-> lb.uid, targetIP |-> hop.TargetAddress,
                               status |-> r.status])
    ELSE IF hop.Type = "NAT"
    THEN LET nat == NatOf(vni, dest, hop)
             r == DpCreateNeighborNat(dp, nat, fault)
         IN  Outcome(r.dp,
                     Wrap("error nat route", ClientErr(r.status, CreateNatIgnore)),
                     [rpc |-> "CreateNeighborNat", vni |-> vni, nat |-> nat,
                      status |-> r.status])
    ELSE LET r == DpCreateRoute(dp, vni, dest.Prefix, hop.TargetVNI, hop.TargetAddress, fault)
         IN  Outcome(r.dp,
                     Wrap("error creating route", ClientErr(r.status, CreateRouteIgnore)),
                     [rpc |-> "CreateRoute", vni |-> vni, prefix |-> dest.Prefix,
                      nhVni |-> hop.TargetVNI, nhIp |-> hop.TargetAddress,
                      status |-> r.status])

\* a deviation: the route is created in the table of destVni, not of vni
addLocalRoute_IntoDestVni(dp, destVni, vni, dest, hop, fault) ==
    IF IPv4OnlyRejects(dest)
    THEN Outcome(dp, MkErr("received non-IPv4 route (IPv4-only mode)", "policy"), NoCall)
    ELSE IF hop.Type = "LOADBALANCER_TARGET"
    THEN LET ip == AddrString(dest.Prefix.addr)
             lb == GetLoadBalancerServer(vni, ip)
         IN  IF ~lb.ok
             THEN Outcome(dp, MkErr("no registered LoadBalancer", "topology"), NoCall)
             ELSE IF OutsidePreferredNetwork(hop)
             THEN Outcome(dp, NilErr, NoCall)
             ELSE LET r == DpCreateLoadBalancerTarget(dp, vni, lb.uid, hop.TargetAddress, fault)
                  IN  Outcome(r.dp,
                              Wrap("error creating lb target",
                                   ClientErr(r.status, CreateLbTargetIgnore)),
                              [rpc |-> "CreateLoadBalancerTarget", vni |-> vni,
                               lb |-> lb.uid, targetIP |-> hop.TargetAddress,
                               status |-> r.status])
    ELSE IF hop.Type = "NAT"
    THEN LET nat == NatOf(vni, dest, hop)
             r == DpCreateNeighborNat(dp, nat, fault)
         IN  Outcome(r.dp,
                     Wrap("error nat route", ClientErr(r.status, CreateNatIgnore)),
                     [rpc |-> "CreateNeighborNat", vni |-> vni, nat |-> nat,
                      status |-> r.status])
    ELSE LET r == DpCreateRoute(dp, destVni, dest.Prefix, destVni, hop.TargetAddress, fault)
         IN  Outcome(r.dp,
                     Wrap("error creating route", ClientErr(r.status, CreateRouteIgnore)),
                     [rpc |-> "CreateRoute", vni |-> destVni, prefix |-> dest.Prefix,
                      nhVni |-> destVni, nhIp |-> hop.TargetAddress,
                      status |-> r.status])

addLocalRoute(dp, destVni, vni, dest, hop, fault) ==
    IF IPv4OnlyRejects(dest)
    THEN Outcome(dp, MkErr("received non-IPv4 route (IPv4-only mode)", "policy"), NoCall)
    ELSE IF hop.Type = "LOADBALANCER_TARGET"
    THEN LET ip == AddrString(dest.Prefix.addr)
             lb == GetLoadBalancerServer(vni, ip)
         IN  IF ~lb.ok
             THEN Outcome(dp, MkErr("no registered LoadBalancer", "topology"), NoCall)
             ELSE IF OutsidePreferredNetwork(hop)
             THEN Outcome(dp, NilErr, NoCall)
             ELSE LET r == DpCreateLoadBalancerTarget(dp, vni, lb.uid, hop.TargetAddress, fault)
                  IN  Outcome(r.dp,
                              Wrap("error creating lb target",
                                   ClientErr(r.status, CreateLbTargetIgnore)),
                              [rpc |-> "CreateLoadBalancerTarget", vni |-> vni,
                               lb |-> lb.uid, targetIP |-> hop.TargetAddress,
                               status |-> r.status])
    ELSE IF hop.Type = "NAT"
    THEN LET nat == NatOf(vni, dest, hop)
             r == DpCreateNeighborNat(dp, nat, fault)
         IN  Outcome(r.dp,
                     Wrap("error nat route", ClientErr(r.status, CreateNatIgnore)),
                     [rpc |-> "CreateNeighborNat", vni |-> vni, nat |-> nat,
                      status |-> r.status])
    ELSE LET r == DpCreateRoute(dp, vni, dest.Prefix, destVni, hop.TargetAddress, fault)
         IN  Outcome(r.dp,
                     Wrap("error creating route", ClientErr(r.status, CreateRouteIgnore)),
                     [rpc |-> "CreateRoute", vni |-> vni, prefix |-> dest.Prefix,
                      nhVni |-> destVni, nhIp |-> hop.TargetAddress,
                      status |-> r.status])

removeLocalRoute(dp, destVni, vni, dest, hop, fault) ==
    IF IPv4OnlyRejects(dest)
    THEN Outcome(dp, MkErr("received non-IPv4 route (IPv4-only mode)", "policy"), NoCall)
    ELSE IF hop.Type = "LOADBALANCER_TARGET"
    THEN LET ip == AddrString(dest.Prefix.addr)
             lb == GetLoadBalancerServer(vni, ip)
         IN  IF ~lb.ok
             THEN Outcome(dp, MkErr("no registered LoadBalancer", "topology"), NoCall)
             ELSE LET r == DpDeleteLoadBalancerTarget(dp, vni, lb.uid, hop.TargetAddress, fault)
                  IN  Outcome(r.dp,
                              Wrap("error deleting lb target",
                                   ClientErr(r.status, DeleteLbTargetIgnore)),
                              [rpc |-> "DeleteLoadBalancerTarget", vni |-> vni,
                               lb |-> lb.uid, targetIP |-> hop.TargetAddress,
                               status |-> r.status])
    ELSE IF hop.Type = "NAT"
    THEN LET nat == NatOf(vni, dest, hop)
             r == DpDeleteNeighborNat(dp, nat, fault)
         IN  Outcome(r.dp,
                     Wrap("error deleting nat route", ClientErr(r.status, DeleteNatIgnore)),
                     [rpc |-> "DeleteNeighborNat", vni |-> vni, nat |-> nat,
                      status |-> r.status])
    ELSE LET r == DpDeleteRoute(dp, vni, dest.Prefix, fault)
         IN  Outcome(r.dp,
                     Wrap("error deleting route", ClientErr(r.status, DeleteRouteIgnore)),
                     [rpc |-> "DeleteRoute", vni |-> vni, prefix |-> dest.Prefix,
                      status |-> r.status])

(***************************************************************************)
(* Fan-out.  A run accumulates the dataplane, the error strings collected  *)
(* so far (errStrs) and the realization attempts made, in order.           *)
(***************************************************************************)
StartRun(dp) == [dp |-> dp, errStrs |-> <<>>, attempts |-> <<>>]

\* if err := ...; err != nil { errStrs = append(errStrs, err.Error()) }
Collect(acc, target, r) ==
    [dp |-> r.dp,
     errStrs |-> IF r.err # NilErr THEN Append(acc.errStrs, r.err) ELSE acc.errStrs,
     attempts |-> Append(acc.attempts, [target |-> target, err |-> r.err, call |-> r.call])]

\* a deviation: the allow-list is not consulted
PeerAllowed_DefaultAllow(vni, peeredVNI, dest) == TRUE

\* the allow-list check of AddRoute for one peer: addRoute
PeerAllowed(vni, peeredVNI, dest) ==
    LET pp == GetPeeredPrefixes(vni)
    IN  IF pp.ok /\ peeredVNI \in DOMAIN pp.m
        THEN \E peeredPrefix \in pp.m[peeredVNI] :
                PrefixContains(peeredPrefix, dest.Prefix.addr)
        ELSE TRUE

\* a deviation: the peer loop of AddRoute returns at the first error
RECURSIVE addToPeers_FailFast(_, _, _, _, _, _)
addToPeers_FailFast(acc, vni, dest, hop, fault, peers) ==
    IF peers = <<>> THEN acc
    ELSE LET peeredVNI == Head(peers)
             r == addLocalRoute(acc.dp, vni, peeredVNI, dest, hop, fault)
             next == IF PeerAllowed(vni, peeredVNI, dest)
                     THEN Collect(acc, peeredVNI, r)
                     ELSE acc
         IN  IF PeerAllowed(vni, peeredVNI, dest) /\ r.err # NilErr THEN next
             ELSE addToPeers_FailFast(next, vni, dest, hop, fault, Tail(peers))

RECURSIVE addToPeers(_, _, _, _, _, _)
addToPeers(acc, vni, dest, hop, fault, peers) ==
    IF peers = <<>> THEN acc
    ELSE LET peeredVNI == Head(peers)
             next == IF PeerAllowed(vni, peeredVNI, dest)
                     THEN Collect(acc, peeredVNI,
                                  addLocalRoute(acc.dp, vni, peeredVNI, dest, hop, fault))
                     ELSE acc
         IN  addToPeers(next, vni, dest, hop, fault, Tail(peers))

\* a deviation: AddRoute fans out whatever the kind of the next hop
AddRouteRun_AllKinds(dp, vni, dest, hop, fault, peers) ==
    addToPeers(Collect(StartRun(dp), vni, addLocalRoute(dp, vni, vni, dest, hop, fault)),
               vni, dest, hop, fault, peers)

\* AddRoute, with the order in which UnsortedList() yields the peers
AddRouteRun(dp, vni, dest, hop, fault, peers) ==
    LET local == Collect(StartRun(dp), vni, addLocalRoute(dp, vni, vni, dest, hop, fault))
    IN  IF hop.Type = "STANDARD"
        THEN addToPeers(local, vni, dest, hop, fault, peers)
        ELSE local

\* a deviation: the peer loop of RemoveRoute consults the allow-list like AddRoute
RECURSIVE removeFromPeers_Filtered(_, _, _, _, _, _)
removeFromPeers_Filtered(acc, vni, dest, hop, fault, peers) ==
    IF peers = <<>> THEN acc
    ELSE LET peeredVNI == Head(peers)
             next == IF hop.Type = "STANDARD" /\ PeerAllowed(vni, peeredVNI, dest)
                     THEN Collect(acc, peeredVNI,
                                  removeLocalRoute(acc.dp, vni, peeredVNI, dest, hop, fault))
                     ELSE acc
         IN  removeFromPeers_Filtered(next, vni, dest, hop, fault, Tail(peers))

RECURSIVE removeFromPeers(_, _, _, _, _, _)
removeFromPeers(acc, vni, dest, hop, fault, peers) ==
    IF peers = <<>> THEN acc
    ELSE LET peeredVNI == Head(peers)
             next == IF hop.Type = "STANDARD"
                     THEN Collect(acc, peeredVNI,
                                  removeLocalRoute(acc.dp, vni, peeredVNI, dest, hop, fault))
                     ELSE acc
         IN  removeFromPeers(next, vni, dest, hop, fault, Tail(peers))

RemoveRouteRun(dp, vni, dest, hop, fault, peers) ==
    LET local == Collect(StartRun(dp), vni, removeLocalRoute(dp, vni, vni, dest, hop, fault))
    IN  removeFromPeers(local, vni, dest, hop, fault, peers)

(***************************************************************************)
(* Cleanup.                                                                *)
(***************************************************************************)
\* route.Spec.NextHop.VNI != vni && (ok && !set.Has(route.Spec.NextHop.VNI))
IsNotPeered(vni, route) ==
    LET p == GetPeerVnis(vni)
    IN  route.nhVni # vni /\ (p.ok /\ route.nhVni \notin p.set)

\* a deviation: the loop returns after the first delete, with its error or nil
RECURSIVE cleanupLoop_ReturnsAfterDelete(_, _, _, _)
cleanupLoop_ReturnsAfterDelete(acc, vni, fault, items) ==
    IF items = <<>> THEN acc
    ELSE LET route == Head(items)
         IN  IF IsNotPeered(vni, route)
             THEN LET r == DpDeleteRoute(acc.dp, vni, route.prefix, fault)
                      e == Wrap("error deleting route",
                                ClientErr(r.status, DeleteRouteIgnore))
                  IN  Collect(acc, vni,
                              Outcome(r.dp, e,
                                      [rpc |-> "DeleteRoute", vni |-> vni,
                                       prefix |-> route.prefix, status |-> r.status]))
             ELSE cleanupLoop_ReturnsAfterDelete(acc, vni, fault, Tail(items))

RECURSIVE cleanupLoop(_, _, _, _)
cleanupLoop(acc, vni, fault, items) ==
    IF items = <<>> THEN acc
    ELSE LET route == Head(items)
         IN  IF IsNotPeered(vni, route)
             THEN LET r == DpDeleteRoute(acc.dp, vni, route.prefix, fault)
                      e == Wrap("error deleting route",
                                ClientErr(r.status, DeleteRouteIgnore))
                      next == Collect(acc, vni,
                                  Outcome(r.dp, e,
                                          [rpc |-> "DeleteRoute", vni |-> vni,
                                           prefix |-> route.prefix, status |-> r.status]))
                  IN  IF e # NilErr THEN next
                      ELSE cleanupLoop(next, vni, fault, Tail(items))
             ELSE cleanupLoop(acc, vni, fault, Tail(items))

\* CleanupNotPeeredRoutes, with the order in which ListRoutes yields the routes
CleanupRun(dp, vni, fault, items) ==
    LET l == DpListRoutes(dp, vni, fault)
    IN  IF l.status # "OK"
        THEN Collect(StartRun(dp), vni,
                     Outcome(dp, MkErr("error listing dpdk routes", l.status),
                             [rpc |-> "ListRoutes", vni |-> vni, status |-> l.status]))
        ELSE cleanupLoop(StartRun(dp), vni, fault, items)

(***************************************************************************)
(* The dataplane translation layer (dpdk/client.go): a stateless mapper    *)
(* between Interface, VirtualIP, Prefix and Route objects and the RPC      *)
(* messages of the dataplane service.  Strings on the wire are sequences   *)
(* of numbers, as AddrString produces them.                                *)
(***************************************************************************)
\* netip.Addr{} and netip.Prefix{}: the zero values, which are not valid
InvalidAddr == [ver |-> 0, o |-> <<>>]
InvalidPrefix == MkPrefix(InvalidAddr, 0 - 1)

\* netip.Addr.IsValid
IsValid(addr) == addr.ver # 0

\* netip.ParseAddr: an IPv4 or IPv6 address in full, anything else is an error
ParseAddr(str) ==
    IF (Len(str) = 5 /\ str[1] = 4) \/ (Len(str) = 17 /\ str[1] = 6)
    THEN [ok |-> TRUE, addr |-> [ver |-> str[1], o |-> Tail(str)]]
    ELSE [ok |-> FALSE, addr |-> InvalidAddr]

\* netip.Prefix.String: "address/bits"; 47 stands for the slash
PrefixString(p) ==
    IF IsValid(p.addr) THEN AddrString(p.addr) \o <<47, p.bits>> ELSE <<0, 0>>

\* uint32(n): the 32-bit two's complement of n, as its two 16-bit halves
Uint32(n) == [hi |-> (n \div Pow2(16)) % Pow2(16), lo |-> n % Pow2(16)]

\* int(u) of a uint32; every value of 2^16 and above stands for 2^16, which is
\* beyond the width of any address
IntOfUint32(u) == IF u.hi = 0 THEN u.lo ELSE Pow2(16)

\* the width in bits of an address of the family of addr
BitLen(addr) == IF addr.ver = 4 THEN 32 ELSE 128

\* netip.Addr.Prefix(bits): the prefix with the host bits cleared, or an error
AddrPrefix(addr, bits) ==
    IF bits < 0 \/ bits > BitLen(addr)
    THEN [ok |-> FALSE, prefix |-> InvalidPrefix]
    ELSE [ok |-> TRUE,
          prefix |-> MkPrefix(
              [ver |-> addr.ver,
               o |-> [i \in 1..Len(addr.o) |->
                        LET sh == Pow2(8 - MaskBits(bits, i))
                        IN  (addr.o[i] \div sh) * sh]],
              bits)]

netipAddrToDPDKIPVersion(addr) ==
    CASE addr.ver = 4 -> "IPv4"
      [] addr.ver = 6 -> "IPv6"
      [] OTHER -> "0"

NilConfig == [nil |-> TRUE, IpVersion |-> "0", PrimaryAddress |-> <<>>]

netipAddrToDPDKIPConfig(addr) ==
    IF ~IsValid(addr) THEN NilConfig
    ELSE [nil |-> FALSE, IpVersion |-> netipAddrToDPDKIPVersion(addr),
          PrimaryAddress |-> AddrString(addr)]

\* errors of the translation layer: the transport error of the RPC, a
\* StatusError{errorCode, message}, or a parse error
XlNil == [kind |-> "nil", code |-> 0, msg |-> ""]
TransportErr == [kind |-> "transport", code |-> 0, msg |-> "rpc failed"]
StatusError(errorCode, message) == [kind |-> "status", code |-> errorCode, msg |-> message]
ParseErr(message) == [kind |-> "parse", code |-> 0, msg |-> message]

(***************************************************************************)
(* The dataplane service behind the RPC interface.  It keeps the           *)
(* interfaces created; an answer is healthy, a transport failure, a        *)
(* failure status, or healthy with one field of the response corrupted.    *)
(***************************************************************************)
Garbage == <<9, 9>>
GoodUnderlay == AddrString(Underlay1)

Healthy == [kind |-> "healthy", field |-> "none"]
Answers ==
    {Healthy, [kind |-> "transport", field |-> "none"], [kind |-> "status", field |-> "none"]}
    \cup [kind : {"corrupt"}, field : {"ipv4", "ipv6", "underlay", "address", "length"}]

EmptyBackend == [interfaces |-> {}, vips |-> {}]

\* the service as the client finds it: no interface yet, and a virtual IP
\* attached to interface "if-2"
InitBackend ==
    [EmptyBackend EXCEPT !.vips = {[InterfaceID |-> "if-2", Address |-> AddrString(Addr4Out)]}]

\* the value of a request field that was not set
Unset == ""

NoPayload == [none |-> TRUE]
Response(e, m, payload) == [Error |-> e, Message |-> m, payload |-> payload]
NoResponse == Response(0, "", NoPayload)

Corrupted(answer, field, value) ==
    IF answer.kind = "corrupt" /\ answer.field = field THEN Garbage ELSE value

StoredInterface(bk, id) == CHOOSE i \in bk.interfaces : i.InterfaceID = id
StoredVIP(bk, id) == CHOOSE v \in bk.vips : v.InterfaceID = id

\* the service's healthy answer to one request
ServeHealthy(bk, rpc, req, answer) ==
    CASE rpc = "GetInterface" ->
            IF \E i \in bk.interfaces : i.InterfaceID = req.InterfaceID
            THEN LET i == StoredInterface(bk, req.InterfaceID)
                 IN  [bk |-> bk,
                      res |-> Response(0, "",
                          [InterfaceID |-> i.InterfaceID, Vni |-> i.Vni,
                           PciDpName |-> i.PciDpName,
                           PrimaryIPv4Address |->
                               Corrupted(answer, "ipv4", i.PrimaryIPv4Address),
                           PrimaryIPv6Address |->
                               Corrupted(answer, "ipv6", i.PrimaryIPv6Address),
                           UnderlayRoute |->
                               Corrupted(answer, "underlay", i.UnderlayRoute)])]
            ELSE [bk |-> bk, res |-> Response(201, "not found", NoPayload)]
      [] rpc = "CreateInterface" ->
            IF \E i \in bk.interfaces : i.InterfaceID = req.InterfaceID
            THEN [bk |-> bk, res |-> Response(202, "already exists", NoPayload)]
            ELSE [bk |-> [bk EXCEPT !.interfaces = @ \cup
                            {[InterfaceID |-> req.InterfaceID, Vni |-> req.Vni,
                              PciDpName |-> req.DeviceName,
                              PrimaryIPv4Address |-> req.Ipv4Config.PrimaryAddress,
                              PrimaryIPv6Address |-> req.Ipv6Config.PrimaryAddress,
                              UnderlayRoute |-> GoodUnderlay]}],
                  res |-> Response(0, "",
                      [UnderlayRoute |-> Corrupted(answer, "underlay", GoodUnderlay)])]
      [] rpc = "DeleteInterface" ->
            IF \E i \in bk.interfaces : i.InterfaceID = req.InterfaceID
            THEN [bk |-> [bk EXCEPT !.interfaces =
                            {i \in @ : i.InterfaceID # req.InterfaceID}],
                  res |-> Response(0, "", NoPayload)]
            ELSE [bk |-> bk, res |-> Response(201, "not found", NoPayload)]
      [] rpc = "GetInterfaceVIP" ->
            IF \E v \in bk.vips : v.InterfaceID = req.InterfaceID
            THEN [bk |-> bk,
                  res |-> Response(0, "",
                      [Address |-> Corrupted(answer, "address",
                                             StoredVIP(bk, req.InterfaceID).Address)])]
            ELSE [bk |-> bk, res |-> Response(201, "not found", NoPayload)]
      [] rpc = "AddInterfaceVIP" ->
            IF \E v \in bk.vips : v.InterfaceID = req.InterfaceID
            THEN [bk |-> bk, res |-> Response(202, "already exists", NoPayload)]
            ELSE [bk |-> [bk EXCEPT !.vips = @ \cup
                            {[InterfaceID |-> req.InterfaceID,
                              Address |-> req.InterfaceVIPIP.Address]}],
                  res |-> Response(0, "", NoPayload)]
      [] rpc = "DeleteInterfaceVIP" ->
            IF \E v \in bk.vips : v.InterfaceID = req.InterfaceID
            THEN [bk |-> [bk EXCEPT !.vips = {v \in @ : v.InterfaceID # req.InterfaceID}],
                  res |-> Response(0, "", NoPayload)]
            ELSE [bk |-> bk, res |-> Response(201, "not found", NoPayload)]
      [] rpc = "ListInterfacePrefixes" ->
            [bk |-> bk,
             res |-> Response(0, "",
                 [Prefixes |->
                    <<[Address |-> AddrString(Addr4In), PrefixLength |-> Uint32(24)],
                      [Address |-> Corrupted(answer, "address", AddrString(Addr4Out)),
                       PrefixLength |->
                           IF answer.kind = "corrupt" /\ answer.field = "length"
                           THEN Uint32(33) ELSE Uint32(32)]>>])]
      [] OTHER -> [bk |-> bk, res |-> Response(0, "", NoPayload)]

Serve(bk, rpc, req, answer) ==
    CASE answer.kind = "transport" -> [bk |-> bk, err |-> TransportErr, res |-> NoResponse]
      [] answer.kind = "status" ->
            [bk |-> bk, err |-> XlNil, res |-> Response(500, "backend failure", NoPayload)]
      [] OTHER ->
            LET r == ServeHealthy(bk, rpc, req, answer)
            IN  [bk |-> r.bk, err |-> XlNil, res |-> r.res]

(***************************************************************************)
(* The client operations.  Each returns the service after the call, the    *)
(* RPCs it issued, the response it received, its result and its error.     *)
(***************************************************************************)
NoResult == [none |-> TRUE]

\* a call repeated once, against a healthy service, when its first try fails
Call_Retry(bk, rpc, req, answer) ==
    LET r == Serve(bk, rpc, req, answer)
        again == Serve(r.bk, rpc, req, Healthy)
        first == [rpc |-> rpc, req |-> req]
    IN  IF r.err # XlNil \/ r.res.Error # 0
        THEN [bk |-> again.bk, rpcs |-> <<first, first>>, err |-> again.err, res |-> again.res]
        ELSE [bk |-> r.bk, rpcs |-> <<first>>, err |-> r.err, res |-> r.res]

\* c.DPDKonmetalClient.<rpc>(ctx, req)
Call(bk, rpc, req, answer) ==
    LET r == Serve(bk, rpc, req, answer)
    IN  [bk |-> r.bk, rpcs |-> <<[rpc |-> rpc, req |-> req]>>, err |-> r.err, res |-> r.res]

Done(c, result, err) ==
    [bk |-> c.bk, rpcs |-> c.rpcs, resp |-> c.res, res |-> result, err |-> err]

\* the operations without a result: the transport error, else the status error, else nil
StatusOnly(c) ==
    IF c.err # XlNil THEN Done(c, NoResult, c.err)
    ELSE IF c.res.Error # 0
    THEN Done(c, NoResult, StatusError(c.res.Error, c.res.Message))
    ELSE Done(c, NoResult, XlNil)

\* the create operations that return their argument on success
EchoOnSuccess(c, arg) ==
    IF c.err # XlNil THEN Done(c, NoResult, c.err)
    ELSE IF c.res.Error # 0
    THEN Done(c, NoResult, StatusError(c.res.Error, c.res.Message))
    ELSE Done(c, arg, XlNil)

dpdkInterfaceToInterface(dpdkIface) ==
    LET primaryIPv4Address == ParseAddr(dpdkIface.PrimaryIPv4Address)
        primaryIPv6Address == ParseAddr(dpdkIface.PrimaryIPv4Address)
        underlayRoute == ParseAddr(dpdkIface.UnderlayRoute)
    IN  IF ~primaryIPv4Address.ok
        THEN [res |-> NoResult, err |-> ParseErr("error parsing primary ipv4 address")]
        ELSE IF ~primaryIPv6Address.ok
        THEN [res |-> NoResult, err |-> ParseErr("error parsing primary ipv6 address")]
        ELSE IF ~underlayRoute.ok
        THEN [res |-> NoResult, err |-> ParseErr("error parsing underlay route")]
        ELSE [res |-> [UID |-> dpdkIface.InterfaceID,
                       Spec |-> [VNI |-> dpdkIface.Vni, Device |-> dpdkIface.PciDpName,
                                 PrimaryIPv4Address |-> primaryIPv4Address.addr,
                                 PrimaryIPv6Address |-> primaryIPv6Address.addr],
                       Status |-> [UnderlayRoute |-> underlayRoute.addr]],
              err |-> XlNil]

GetInterfaceRun(bk, uid, answer) ==
    LET c == Call(bk, "GetInterface", [InterfaceID |-> uid], answer)
    IN  IF c.err # XlNil THEN Done(c, NoResult, c.err)
        ELSE IF c.res.Error # 0
        THEN Done(c, NoResult, StatusError(c.res.Error, c.res.Message))
        ELSE LET i == dpdkInterfaceToInterface(c.res.payload)
             IN  Done(c, i.res, i.err)

CreateInterfaceRun(bk, iface, answer) ==
    LET c == Call(bk, "CreateInterface",
                  [InterfaceType |-> "VirtualInterface", InterfaceID |-> iface.UID,
                   Vni |-> iface.Spec.VNI,
                   Ipv4Config |-> netipAddrToDPDKIPConfig(iface.Spec.PrimaryIPv4Address),
                   Ipv6Config |-> netipAddrToDPDKIPConfig(iface.Spec.PrimaryIPv6Address),
                   DeviceName |-> iface.Spec.Device],
                  answer)
    IN  IF c.err # XlNil THEN Done(c, NoResult, c.err)
        ELSE IF c.res.Error # 0
        THEN Done(c, NoResult, StatusError(c.res.Error, c.res.Message))
        ELSE LET underlayRoute == ParseAddr(c.res.payload.UnderlayRoute)
             IN  IF ~underlayRoute.ok
                 THEN Done(c, NoResult, ParseErr("error parsing underlay route"))
                 ELSE Done(c, [UID |-> iface.UID, Spec |-> iface.Spec,
                               Status |-> [UnderlayRoute |-> underlayRoute.addr]],
                           XlNil)

DeleteInterfaceRun(bk, uid, answer) ==
    StatusOnly(Call(bk, "DeleteInterface", [InterfaceID |-> uid], answer))

dpdkVirtualIPToVirtualIP(interfaceUID, dpdkVIP) ==
    LET addr == ParseAddr(dpdkVIP.Address)
    IN  IF ~addr.ok
        THEN [res |-> NoResult, err |-> ParseErr("error parsing virtual ip address")]
        ELSE [res |-> [InterfaceUID |-> interfaceUID, Spec |-> [Address |-> addr.addr]],
              err |-> XlNil]

GetVirtualIPRun(bk, interfaceUID, answer) ==
    LET c == Call(bk, "GetInterfaceVIP", [InterfaceID |-> interfaceUID], answer)
    IN  IF c.err # XlNil THEN Done(c, NoResult, c.err)
        ELSE IF c.res.Error # 0
        THEN Done(c, NoResult, StatusError(c.res.Error, c.res.Message))
        ELSE LET v == dpdkVirtualIPToVirtualIP(interfaceUID, c.res.payload)
             IN  Done(c, v.res, v.err)

\* the request names no interface: InterfaceID is not set
CreateVirtualIPRun(bk, virtualIP, answer) ==
    EchoOnSuccess(
        Call(bk, "AddInterfaceVIP",
             [InterfaceID |-> Unset,
              InterfaceVIPIP |->
                [IpVersion |-> netipAddrToDPDKIPVersion(virtualIP.Spec.Address),
                 Address |-> AddrString(virtualIP.Spec.Address)]],
             answer),
        virtualIP)

DeleteVirtualIPRun(bk, interfaceUID, answer) ==
    StatusOnly(Call(bk, "DeleteInterfaceVIP", [InterfaceID |-> interfaceUID], answer))

dpdkPrefixToPrefix(interfaceUID, dpdkPrefix) ==
    LET addr == ParseAddr(dpdkPrefix.Address)
        prefix == AddrPrefix(addr.addr, IntOfUint32(dpdkPrefix.PrefixLength))
    IN  IF ~addr.ok
        THEN [res |-> NoResult, err |-> ParseErr("error parsing dpdk prefix address")]
        ELSE IF ~prefix.ok
        THEN [res |-> NoResult, err |-> ParseErr("invalid dpdk prefix length")]
        ELSE [res |-> [InterfaceUID |-> interfaceUID, Spec |-> [Prefix |-> prefix.prefix]],
              err |-> XlNil]

\* res.GetPrefixes(): empty when the response carries none
GetPrefixes(res) ==
    IF res.payload = NoPayload THEN <<>> ELSE res.payload.Prefixes

\* the loop of ListPrefixes: the prefixes converted so far, or the first error
RECURSIVE convertPrefixes(_, _, _)
convertPrefixes(interfaceUID, dpdkPrefixes, prefixes) ==
    IF dpdkPrefixes = <<>> THEN [res |-> [Items |-> prefixes], err |-> XlNil]
    ELSE LET prefix == dpdkPrefixToPrefix(interfaceUID, Head(dpdkPrefixes))
         IN  IF prefix.err # XlNil THEN [res |-> NoResult, err |-> prefix.err]
             ELSE convertPrefixes(interfaceUID, Tail(dpdkPrefixes),
                                  Append(prefixes, prefix.res))

\* the status of the response is not looked at
ListPrefixesRun(bk, interfaceUID, answer) ==
    LET c == Call(bk, "ListInterfacePrefixes", [InterfaceID |-> interfaceUID], answer)
    IN  IF c.err # XlNil THEN Done(c, NoResult, c.err)
        ELSE LET l == convertPrefixes(interfaceUID, GetPrefixes(c.res), <<>>)
             IN  Done(c, l.res, l.err)

PrefixRequest(interfaceUID, prefix) ==
    [InterfaceID |-> interfaceUID,
     Prefix |-> [IpVersion |-> netipAddrToDPDKIPVersion(prefix.addr),
                 Address |-> AddrString(prefix.addr),
                 PrefixLength |-> Uint32(prefix.bits)]]

CreatePrefixRun(bk, prefix, answer) ==
    EchoOnSuccess(
        Call(bk, "AddInterfacePrefix",
             PrefixRequest(prefix.InterfaceUID, prefix.Spec.Prefix), answer),
        prefix)

DeletePrefixRun(bk, interfaceUID, prefix, answer) ==
    StatusOnly(Call(bk, "DeleteInterfacePrefix", PrefixRequest(interfaceUID, prefix), answer))

\* the VNIRouteMsg of CreateRoute and DeleteRoute: the prefix address is
\* rendered with route.Spec.Prefix.String()
RouteRequest(route) ==
    [Vni |-> route.VNI,
     Route |-> [IpVersion |-> netipAddrToDPDKIPVersion(route.Spec.NextHop.Address),
                Weight |-> 100,
                Prefix |-> [IpVersion |-> netipAddrToDPDKIPVersion(route.Spec.Prefix.addr),
                            Address |-> PrefixString(route.Spec.Prefix),
                            PrefixLength |-> Uint32(route.Spec.Prefix.bits)],
                NexthopVNI |-> route.Spec.NextHop.VNI,
                NexthopAddress |-> AddrString(route.Spec.NextHop.Address)]]

CreateRouteRun(bk, route, answer) ==
    EchoOnSuccess(Call(bk, "AddRoute", RouteRequest(route), answer), route)

DeleteRouteRun(bk, route, answer) ==
    StatusOnly(Call(bk, "DeleteRoute", RouteRequest(route), answer))

(***************************************************************************)
(* The state machine.  The engine keeps no state of its own: the state is  *)
(* the dataplane service's tables, the topology cache and the options.     *)
(* The dataplane outlives the engine, so at construction it is empty or    *)
(* holds what earlier route events left.  A behaviour draws its inputs     *)
(* from one of three scopes: "kinds" (every next-hop kind and destination, *)
(* a healthy backend), "faults" (Standard next hops with backend faults),  *)
(* "peering" (Standard next hops, cleanup, and changes of the topology).   *)
(***************************************************************************)
\* the orders in which a set can be enumerated
Perms(S) ==
    {f \in [1..Cardinality(S) -> S] : \A i, j \in 1..Cardinality(S) : f[i] = f[j] => i = j}

Absent == [ok |-> FALSE, set |-> {}]
Peers(S) == [ok |-> TRUE, set |-> S]
Unfiltered == [ok |-> FALSE, m |-> <<>>]
Filters(m) == [ok |-> TRUE, m |-> m]

LbServers == {[vni |-> 100, ip |-> AddrString(Addr4In), uid |-> "lb-1"]}

\* VNI 100 peered with 200 (no filter) and 300 (filter 10.0.0.0/24); 300 unknown
TopologyFiltered ==
    [peerVnis |-> (100 :> Peers({200, 300}) @@ 200 :> Peers({100}) @@ 300 :> Absent),
     peeredPrefixes |-> (100 :> Filters(300 :> {Filter24}) @@ 200 :> Unfiltered
                         @@ 300 :> Unfiltered),
     lbServers |-> LbServers]

\* an asymmetric peering: 300 announces into 100, 100 only into 200, with an
\* empty allow-list for 200
TopologyAsymmetric ==
    [peerVnis |-> (100 :> Peers({200}) @@ 200 :> Peers({100, 300}) @@ 300 :> Peers({100})),
     peeredPrefixes |-> (100 :> Filters(200 :> {}) @@ 200 :> Unfiltered
                         @@ 300 :> Unfiltered),
     lbServers |-> LbServers]

InitCaches == {TopologyFiltered, TopologyAsymmetric}

NilNet == [nil |-> TRUE, net |-> PreferredNet]
ConfigIPv4Only == [IPv4Only |-> TRUE, PreferredNetwork |-> NilNet]
ConfigDualStack ==
    [IPv4Only |-> FALSE, PreferredNetwork |-> [nil |-> FALSE, net |-> PreferredNet]]
Configs == {ConfigIPv4Only, ConfigDualStack}

\* what three earlier announcements left in the dataplane under the current
\* topology: 300 announced 192.168.1.1/32 and 10.0.0.5/32, then 200 announced
\* 10.0.0.5/32
EarlierEvents ==
    LET of300 == CHOOSE o \in Perms(GetPeerVnis(300).set) : TRUE
        of200 == CHOOSE o \in Perms(GetPeerVnis(200).set) : TRUE
        first == AddRouteRun(EmptyDataplane, 300, Dest4Out, HopStd1, NoFault, of300)
        second == AddRouteRun(first.dp, 300, Dest4In, HopStd1, NoFault, of300)
    IN  AddRouteRun(second.dp, 200, Dest4In, HopStd2, NoFault, of200).dp

InitDataplanes == {EmptyDataplane, EarlierEvents}

Scopes == {"kinds", "faults", "peering"}
ScopeHops ==
    CASE scope = "kinds" -> Hops \ {HopStd2}
      [] scope = "faults" -> {HopStd1}
      [] OTHER -> {HopStd1, HopStd2}
ScopeDests == IF scope = "kinds" THEN Dests ELSE {Dest4In, Dest4Out}
\* the options matter to non-IPv4 destinations and LoadBalancer next hops only
ScopeConfigs == IF scope = "kinds" THEN Configs ELSE {ConfigIPv4Only}
ScopeCaches == IF scope = "kinds" THEN {TopologyFiltered} ELSE InitCaches
ScopeDataplanes == IF scope = "kinds" THEN {EmptyDataplane} ELSE InitDataplanes

\* the faults worth drawing for a route operation of vni: those aimed at a VNI
\* the operation can call
RouteFaults(vni) ==
    IF scope = "faults"
    THEN {f \in Faults : f.call # "list" /\ f.vni \in {0, vni} \cup GetPeerVnis(vni).set}
    ELSE {NoFault}

CleanupFaults(vni) == {f \in Faults : f.vni \in {0, vni}}

NoArg == [none |-> TRUE]
NoOp == [op |-> "none", vni |-> 0, dest |-> NoArg, hop |-> NoArg,
         errStrs |-> <<>>, attempts |-> <<>>]

\* an attempt whose dataplane call was failed by the backend fault
Faulted(a) == a.call # NoCall /\ a.call.status \in {"TRANSPORT", "INTERNAL"}
NoFaultIn(l) == \A i \in 1..Len(l.attempts) : ~Faulted(l.attempts[i])

Summary(l) ==
    [op |-> l.op, vni |-> l.vni, dest |-> l.dest, hop |-> l.hop,
     ok |-> l.errStrs = <<>>, faulty |-> ~NoFaultIn(l)]

\* no operation of the translation layer yet
NoXl == [op |-> "none", arg |-> NoArg, answer |-> Healthy, rpcs |-> <<>>,
         resp |-> NoResponse, res |-> NoResult, err |-> XlNil]

\* no concurrent invocations
NoInv == [dp0 |-> EmptyDataplane, procs |-> <<>>]

\* no cleanup pass in progress
NoCleanup ==
    [pc |-> "idle", vni |-> 0, fault |-> NoFault, dp0 |-> EmptyDataplane,
     listing |-> <<>>, rest |-> <<>>, errStrs |-> <<>>, attempts |-> <<>>,
     deleted |-> {}]

\* no route event has raced with a topology change
NoRace == [phase |-> "start", vni |-> 0, dest |-> NoArg, hop |-> NoArg, cleaned |-> {}]

Init ==
    /\ race = NoRace
    /\ cl = NoCleanup
    /\ inv = NoInv
    /\ backend = InitBackend
    /\ xl = NoXl
    /\ scope \in Scopes
    /\ config \in ScopeConfigs
    /\ cache \in ScopeCaches
    /\ dataplane \in ScopeDataplanes
    /\ pre = dataplane
    /\ last = NoOp
    /\ prev = Summary(NoOp)
    /\ nSteps = 0

Record(op, vni, dest, hop, run) ==
    /\ dataplane' = run.dp
    /\ pre' = dataplane
    /\ prev' = Summary(last)
    /\ last' = [op |-> op, vni |-> vni, dest |-> dest, hop |-> hop,
                errStrs |-> run.errStrs, attempts |-> run.attempts]
    /\ nSteps' = nSteps + 1
    /\ UNCHANGED <<cache, config, scope, backend, xl, inv, cl, race>>

AddRoute(vni, dest, hop) ==
    /\ nSteps < MaxSteps
    /\ \E fault \in RouteFaults(vni), peers \in Perms(GetPeerVnis(vni).set) :
          Record("AddRoute", vni, dest, hop,
                 AddRouteRun(dataplane, vni, dest, hop, fault, peers))

RemoveRoute(vni, dest, hop) ==
    /\ nSteps < MaxSteps
    /\ \E fault \in RouteFaults(vni), peers \in Perms(GetPeerVnis(vni).set) :
          Record("RemoveRoute", vni, dest, hop,
                 RemoveRouteRun(dataplane, vni, dest, hop, fault, peers))

CleanupNotPeeredRoutes(vni) ==
    /\ scope # "kinds"
    /\ nSteps < MaxSteps
    /\ \E fault \in CleanupFaults(vni), items \in Perms(RoutesOf(dataplane, vni)) :
          Record("CleanupNotPeeredRoutes", vni, NoArg, NoArg,
                 CleanupRun(dataplane, vni, fault, items))

TopologyChanged ==
    /\ scope = "peering"
    /\ nSteps < MaxSteps
    /\ last' = [NoOp EXCEPT !.op = "topology"]
    /\ pre' = dataplane
    /\ prev' = Summary(last)
    /\ nSteps' = nSteps + 1
    /\ UNCHANGED <<dataplane, config, scope, backend, xl, inv, cl, race>>

\* the owner of the topology cache changes the peer set of one VNI
SetPeerVnis(vni, peers) ==
    /\ peers # cache.peerVnis[vni]
    /\ cache' = [cache EXCEPT !.peerVnis[vni] = peers]
    /\ TopologyChanged

\* the owner of the topology cache changes the allow-lists of one VNI
SetPeeredPrefixes(vni, filters) ==
    /\ filters # cache.peeredPrefixes[vni]
    /\ cache' = [cache EXCEPT !.peeredPrefixes[vni] = filters]
    /\ TopologyChanged

PeerSetValues(vni) == {Absent} \cup {Peers(S) : S \in SUBSET (VNIs \ {vni})}

\* no allow-list at all, or an allow-list for one peer
FilterValues(vni) ==
    {Unfiltered} \cup
    {Filters(p :> f) : p \in VNIs \ {vni}, f \in {{}, {Filter24}}}

Next ==
    \/ \E vni \in VNIs, dest \in ScopeDests, hop \in ScopeHops : AddRoute(vni, dest, hop)
    \/ \E vni \in VNIs, dest \in ScopeDests, hop \in ScopeHops : RemoveRoute(vni, dest, hop)
    \/ \E vni \in VNIs : CleanupNotPeeredRoutes(vni)
    \/ \E vni \in VNIs : \E peers \in PeerSetValues(vni) : SetPeerVnis(vni, peers)
    \/ \E vni \in VNIs : \E filters \in FilterValues(vni) : SetPeeredPrefixes(vni, filters)

Spec == Init /\ [][Next]_vars

(***************************************************************************)
(* The translation layer as a state machine: its operations applied to     *)
(* bounded arguments, each answered by the service in one of the ways of   *)
(* Answers.  The engine takes no step here.                                *)
(***************************************************************************)
UIDs == {"if-1", "if-2"}
XlInterfaces ==
    [UID : UIDs,
     Spec : [VNI : {100}, Device : {"dev0"},
             PrimaryIPv4Address : {Addr4In, InvalidAddr},
             PrimaryIPv6Address : {Addr6, InvalidAddr}]]
XlVirtualIPs == [InterfaceUID : UIDs, Spec : [Address : {Addr4Out, InvalidAddr}]]
XlPrefixValues == {Filter24, MkPrefix(Addr4In, 24), InvalidPrefix}
XlPrefixes == [InterfaceUID : UIDs, Spec : [Prefix : XlPrefixValues]]
XlRoutes ==
    [VNI : {100},
     Spec : [Prefix : {MkPrefix(Addr4In, 32), InvalidPrefix},
             NextHop : [VNI : {200}, Address : {Underlay1, InvalidAddr}]]]

\* the answers that differ for an operation: the fields its response carries
AnswersFor(op) ==
    {a \in Answers :
        a.kind = "corrupt" =>
            CASE op = "GetInterface" -> a.field \in {"ipv4", "ipv6", "underlay"}
              [] op = "CreateInterface" -> a.field = "underlay"
              [] op = "GetVirtualIP" -> a.field = "address"
              [] op = "ListPrefixes" -> a.field \in {"address", "length"}
              [] OTHER -> FALSE}

XlInit ==
    /\ Init
    /\ scope = "kinds"
    /\ config = ConfigIPv4Only

XlRecord(op, arg, answer, run) ==
    /\ backend' = run.bk
    /\ xl' = [op |-> op, arg |-> arg, answer |-> answer, rpcs |-> run.rpcs,
              resp |-> run.resp, res |-> run.res, err |-> run.err]
    /\ UNCHANGED <<dataplane, cache, config, last, pre, prev, scope, nSteps, inv, cl, race>>

GetInterface(uid) ==
    \E answer \in AnswersFor("GetInterface") :
        XlRecord("GetInterface", uid, answer, GetInterfaceRun(backend, uid, answer))

CreateInterface(iface) ==
    \E answer \in AnswersFor("CreateInterface") :
        XlRecord("CreateInterface", iface, answer, CreateInterfaceRun(backend, iface, answer))

DeleteInterface(uid) ==
    \E answer \in AnswersFor("DeleteInterface") :
        XlRecord("DeleteInterface", uid, answer, DeleteInterfaceRun(backend, uid, answer))

GetVirtualIP(interfaceUID) ==
    \E answer \in AnswersFor("GetVirtualIP") :
        XlRecord("GetVirtualIP", interfaceUID, answer,
                 GetVirtualIPRun(backend, interfaceUID, answer))

CreateVirtualIP(virtualIP) ==
    \E answer \in AnswersFor("CreateVirtualIP") :
        XlRecord("CreateVirtualIP", virtualIP, answer,
                 CreateVirtualIPRun(backend, virtualIP, answer))

DeleteVirtualIP(interfaceUID) ==
    \E answer \in AnswersFor("DeleteVirtualIP") :
        XlRecord("DeleteVirtualIP", interfaceUID, answer,
                 DeleteVirtualIPRun(backend, interfaceUID, answer))

ListPrefixes(interfaceUID) ==
    \E answer \in AnswersFor("ListPrefixes") :
        XlRecord("ListPrefixes", interfaceUID, answer,
                 ListPrefixesRun(backend, interfaceUID, answer))

CreatePrefix(prefix) ==
    \E answer \in AnswersFor("CreatePrefix") :
        XlRecord("CreatePrefix", prefix, answer, CreatePrefixRun(backend, prefix, answer))

DeletePrefix(interfaceUID, prefix) ==
    \E answer \in AnswersFor("DeletePrefix") :
        XlRecord("DeletePrefix", [InterfaceUID |-> interfaceUID, Prefix |-> prefix], answer,
                 DeletePrefixRun(backend, interfaceUID, prefix, answer))

CreateRoute(route) ==
    \E answer \in AnswersFor("CreateRoute") :
        XlRecord("CreateRoute", route, answer, CreateRouteRun(backend, route, answer))

DeleteRoute(route) ==
    \E answer \in AnswersFor("DeleteRoute") :
        XlRecord("DeleteRoute", route, answer, DeleteRouteRun(backend, route, answer))

XlNext ==
    \/ \E uid \in UIDs : GetInterface(uid)
    \/ \E iface \in XlInterfaces : CreateInterface(iface)
    \/ \E uid \in UIDs : DeleteInterface(uid)
    \/ \E uid \in UIDs : GetVirtualIP(uid)
    \/ \E virtualIP \in XlVirtualIPs : CreateVirtualIP(virtualIP)
    \/ \E uid \in UIDs : DeleteVirtualIP(uid)
    \/ \E uid \in UIDs : ListPrefixes(uid)
    \/ \E prefix \in XlPrefixes : CreatePrefix(prefix)
    \/ \E uid \in UIDs, prefix \in XlPrefixValues : DeletePrefix(uid, prefix)
    \/ \E route \in XlRoutes : CreateRoute(route)
    \/ \E route \in XlRoutes : DeleteRoute(route)

XlSpec == XlInit /\ [][XlNext]_vars

(***************************************************************************)
(* Concurrent invocations.  The engine holds no lock: two invocations of   *)
(* AddRoute/RemoveRoute for different (VNI, destination) keys run at the   *)
(* same time, each dataplane call being one atomic step on the shared      *)
(* dataplane.  An invocation is at its local attempt (pc = "local"), in    *)
(* its peer loop (pc = "peers", rest = the peers still to visit) or has    *)
(* returned (pc = "done").                                                 *)
(***************************************************************************)
ConcVNIs == {100, 200}
ConcDests == {Dest4In, Dest4Out}
ConcHops == {HopStd1, HopStd2}

Invocation(op, vni, dest, hop, peers) ==
    [op |-> op, vni |-> vni, dest |-> dest, hop |-> hop, peers |-> peers,
     pc |-> "local", rest |-> peers, errStrs |-> <<>>, attempts |-> <<>>]

Invocations ==
    {Invocation(op, vni, dest, hop, peers) :
        op \in {"AddRoute", "RemoveRoute"}, vni \in ConcVNIs, dest \in ConcDests,
        hop \in ConcHops, peers \in UNION {Perms(GetPeerVnis(v).set) : v \in ConcVNIs}}

\* the attempt of invocation p at target, on the dataplane as it is now
AttemptOf(p, target) ==
    IF p.op = "AddRoute"
    THEN addLocalRoute(dataplane, p.vni, target, p.dest, p.hop, NoFault)
    ELSE removeLocalRoute(dataplane, p.vni, target, p.dest, p.hop, NoFault)

\* whether the peer loop of invocation p makes an attempt at peeredVNI
VisitsPeer(p, peeredVNI) ==
    IF p.op = "AddRoute"
    THEN PeerAllowed(p.vni, peeredVNI, p.dest)
    ELSE p.hop.Type = "STANDARD"

\* the invocation after its attempt r at target
Attempted(p, target, r, pc, rest) ==
    LET acc == Collect([dp |-> dataplane, errStrs |-> p.errStrs, attempts |-> p.attempts],
                       target, r)
    IN  [p EXCEPT !.errStrs = acc.errStrs, !.attempts = acc.attempts,
                  !.pc = pc, !.rest = rest]

ConcInit ==
    /\ Init
    /\ scope = "peering"

\* the protocol engine invokes two operations for different keys at once
Invoke(a, b) ==
    /\ inv.procs = <<>>
    /\ <<a.vni, a.dest>> # <<b.vni, b.dest>>
    /\ a.peers \in Perms(GetPeerVnis(a.vni).set)
    /\ b.peers \in Perms(GetPeerVnis(b.vni).set)
    /\ inv' = [dp0 |-> dataplane, procs |-> <<a, b>>]
    /\ UNCHANGED <<dataplane, cache, config, last, pre, prev, scope, nSteps, backend, xl, cl, race>>

\* the local attempt of invocation i
LocalStep(i) ==
    /\ inv.procs # <<>>
    /\ inv.procs[i].pc = "local"
    /\ LET p == inv.procs[i]
           r == AttemptOf(p, p.vni)
           loops == p.op = "RemoveRoute" \/ p.hop.Type = "STANDARD"
           pc == IF loops /\ p.peers # <<>> THEN "peers" ELSE "done"
       IN  /\ dataplane' = r.dp
           /\ inv' = [inv EXCEPT !.procs[i] = Attempted(p, p.vni, r, pc, p.peers)]
    /\ UNCHANGED <<cache, config, last, pre, prev, scope, nSteps, backend, xl, cl, race>>

\* one iteration of the peer loop of invocation i
PeerStep(i) ==
    /\ inv.procs # <<>>
    /\ inv.procs[i].pc = "peers"
    /\ LET p == inv.procs[i]
           peeredVNI == Head(p.rest)
           rest == Tail(p.rest)
           pc == IF rest = <<>> THEN "done" ELSE "peers"
           r == AttemptOf(p, peeredVNI)
       IN  IF VisitsPeer(p, peeredVNI)
           THEN /\ dataplane' = r.dp
                /\ inv' = [inv EXCEPT !.procs[i] = Attempted(p, peeredVNI, r, pc, rest)]
           ELSE /\ dataplane' = dataplane
                /\ inv' = [inv EXCEPT !.procs[i] = [p EXCEPT !.pc = pc, !.rest = rest]]
    /\ UNCHANGED <<cache, config, last, pre, prev, scope, nSteps, backend, xl, cl, race>>

ConcNext ==
    \/ \E a \in Invocations, b \in Invocations : Invoke(a, b)
    \/ \E i \in 1..2 : LocalStep(i)
    \/ \E i \in 1..2 : PeerStep(i)

ConcSpec == ConcInit /\ [][ConcNext]_vars

(***************************************************************************)
(* Cleanup running beside route events.  CleanupNotPeeredRoutes lists the  *)
(* routes of vni in one call and then deletes the stale ones of the        *)
(* listing one call at a time; between two of its calls the protocol       *)
(* engine may deliver AddRoute and RemoveRoute events, each taken here as  *)
(* one step.  The topology does not change during the pass.                *)
(***************************************************************************)
CleanInit ==
    /\ Init
    /\ scope = "peering"

\* routes, err := c.dpdk.ListRoutes(ctx, vni), with the order of routes.Items
ListStep(vni, fault, items) ==
    /\ cl.pc = "idle"
    /\ LET l == DpListRoutes(dataplane, vni, fault)
           failed == Collect(StartRun(dataplane), vni,
                             Outcome(dataplane, MkErr("error listing dpdk routes", l.status),
                                     [rpc |-> "ListRoutes", vni |-> vni,
                                      status |-> l.status]))
       IN  IF l.status # "OK"
           THEN cl' = [NoCleanup EXCEPT !.pc = "done", !.vni = vni, !.fault = fault,
                                        !.dp0 = dataplane, !.errStrs = failed.errStrs,
                                        !.attempts = failed.attempts]
           ELSE cl' = [NoCleanup EXCEPT !.pc = IF items = <<>> THEN "done" ELSE "loop",
                                        !.vni = vni, !.fault = fault, !.dp0 = dataplane,
                                        !.listing = items, !.rest = items]
    /\ UNCHANGED <<dataplane, cache, config, last, pre, prev, scope, nSteps, backend, xl, inv, race>>

\* a deviation: the loop goes on after a failed delete
DeleteStep_GoesOn ==
    /\ cl.pc = "loop"
    /\ LET route == Head(cl.rest)
           rest == Tail(cl.rest)
           r == DpDeleteRoute(dataplane, cl.vni, route.prefix, cl.fault)
           e == Wrap("error deleting route", ClientErr(r.status, DeleteRouteIgnore))
           acc == Collect([dp |-> dataplane, errStrs |-> cl.errStrs,
                           attempts |-> cl.attempts],
                          cl.vni,
                          Outcome(r.dp, e,
                                  [rpc |-> "DeleteRoute", vni |-> cl.vni,
                                   prefix |-> route.prefix, status |-> r.status]))
       IN  IF IsNotPeered(cl.vni, route)
           THEN /\ dataplane' = r.dp
                /\ cl' = [cl EXCEPT !.errStrs = acc.errStrs, !.attempts = acc.attempts,
                                    !.deleted = @ \cup (dataplane.routes \ r.dp.routes),
                                    !.rest = rest,
                                    !.pc = IF rest = <<>> THEN "done" ELSE "loop"]
           ELSE /\ dataplane' = dataplane
                /\ cl' = [cl EXCEPT !.rest = rest,
                                    !.pc = IF rest = <<>> THEN "done" ELSE "loop"]
    /\ UNCHANGED <<cache, config, last, pre, prev, scope, nSteps, backend, xl, inv, race>>

\* one iteration of the loop over routes.Items
DeleteStep ==
    /\ cl.pc = "loop"
    /\ LET route == Head(cl.rest)
           rest == Tail(cl.rest)
           r == DpDeleteRoute(dataplane, cl.vni, route.prefix, cl.fault)
           e == Wrap("error deleting route", ClientErr(r.status, DeleteRouteIgnore))
           acc == Collect([dp |-> dataplane, errStrs |-> cl.errStrs,
                           attempts |-> cl.attempts],
                          cl.vni,
                          Outcome(r.dp, e,
                                  [rpc |-> "DeleteRoute", vni |-> cl.vni,
                                   prefix |-> route.prefix, status |-> r.status]))
       IN  IF IsNotPeered(cl.vni, route)
           THEN /\ dataplane' = r.dp
                /\ cl' = [cl EXCEPT !.errStrs = acc.errStrs, !.attempts = acc.attempts,
                                    !.deleted = @ \cup (dataplane.routes \ r.dp.routes),
                                    !.rest = rest,
                                    !.pc = IF e # NilErr \/ rest = <<>>
                                           THEN "done" ELSE "loop"]
           ELSE /\ dataplane' = dataplane
                /\ cl' = [cl EXCEPT !.rest = rest,
                                    !.pc = IF rest = <<>> THEN "done" ELSE "loop"]
    /\ UNCHANGED <<cache, config, last, pre, prev, scope, nSteps, backend, xl, inv, race>>

\* a route event delivered while the pass is between two of its calls
AddDuringCleanup(vni, dest, hop) == cl.pc = "loop" /\ AddRoute(vni, dest, hop)
RemoveDuringCleanup(vni, dest, hop) == cl.pc = "loop" /\ RemoveRoute(vni, dest, hop)

CleanNext ==
    \/ \E vni \in VNIs : \E fault \in CleanupFaults(vni),
                            items \in Perms(RoutesOf(dataplane, vni)) :
            ListStep(vni, fault, items)
    \/ DeleteStep
    \/ \E vni \in VNIs, dest \in ScopeDests, hop \in ScopeHops :
            AddDuringCleanup(vni, dest, hop)
    \/ \E vni \in VNIs, dest \in ScopeDests, hop \in ScopeHops :
            RemoveDuringCleanup(vni, dest, hop)

CleanSpec == CleanInit /\ [][CleanNext]_vars

(***************************************************************************)
(* A fan-out racing with a topology change.  AddRoute reads the peer set   *)
(* (line 194) and the allow-lists (line 195) in two separate calls on the  *)
(* topology cache, which its owner may change in between.  Afterwards the  *)
(* topology is stable, the same event is delivered again, and a cleanup    *)
(* pass runs on every VNI.                                                 *)
(***************************************************************************)
RaceInit == Init /\ scope = "peering" /\ dataplane = EmptyDataplane

\* the caches one change of the owner away from the current one: the peer set
\* or the allow-lists of one VNI replaced
TopologyChanges ==
    UNION {{[cache EXCEPT !.peerVnis[v] = peers] :
                peers \in PeerSetValues(v) \ {cache.peerVnis[v]}} : v \in VNIs}
    \cup
    UNION {{[cache EXCEPT !.peeredPrefixes[v] = filters] :
                filters \in FilterValues(v) \ {cache.peeredPrefixes[v]}} : v \in VNIs}

\* AddRoute whose GetPeerVnis answers from the cache before the change and
\* whose GetPeeredPrefixes answers from the cache after it
RacingAddRoute(vni, dest, hop, changed) ==
    /\ race.phase = "start"
    /\ cache' = changed
    /\ UNCHANGED config
    /\ \E dp \in {dataplane}, peers \in Perms(GetPeerVnis(vni).set) :
          dataplane' = (AddRouteRun(dp, vni, dest, hop, NoFault, peers).dp)'
    /\ race' = [phase |-> "raced", vni |-> vni, dest |-> dest, hop |-> hop,
                cleaned |-> {}]
    /\ UNCHANGED <<last, pre, prev, scope, nSteps, backend, xl, inv, cl>>

\* the same event delivered again, the topology now stable
Redeliver ==
    /\ race.phase = "raced"
    /\ \E peers \in Perms(GetPeerVnis(race.vni).set) :
          dataplane' =
              AddRouteRun(dataplane, race.vni, race.dest, race.hop, NoFault, peers).dp
    /\ race' = [race EXCEPT !.phase = "redelivered"]
    /\ UNCHANGED <<cache, config, last, pre, prev, scope, nSteps, backend, xl, inv, cl>>

\* the cleanup pass of one VNI that has not had one since the re-delivery
CleanupPass(vni) ==
    /\ race.phase = "redelivered"
    /\ vni \notin race.cleaned
    /\ \E items \in Perms(RoutesOf(dataplane, vni)) :
          dataplane' = CleanupRun(dataplane, vni, NoFault, items).dp
    /\ race' = [race EXCEPT !.cleaned = @ \cup {vni}]
    /\ UNCHANGED <<cache, config, last, pre, prev, scope, nSteps, backend, xl, inv, cl>>

RaceNext ==
    \/ \E vni \in VNIs, dest \in ScopeDests, hop \in ScopeHops :
          \E changed \in TopologyChanges : RacingAddRoute(vni, dest, hop, changed)
    \/ Redeliver
    \/ \E vni \in VNIs : CleanupPass(vni)

RaceSpec == RaceInit /\ [][RaceNext]_vars

(***************************************************************************)
(* Vocabulary of the properties.                                           *)
(***************************************************************************)
IsRouteOp(l) == l.op \in {"AddRoute", "RemoveRoute"}
IsStandard(l) == IsRouteOp(l) /\ l.hop.Type = "STANDARD"

\* the dataplane calls the last operation issued, in order
CallIdx(l) == {i \in 1..Len(l.attempts) : l.attempts[i].call # NoCall}
CallsTo(l, rpc) == {i \in CallIdx(l) : l.attempts[i].call.rpc = rpc}
TargetsOf(l, rpc) == {l.attempts[i].call.vni : i \in CallsTo(l, rpc)}

CurrentPeers(vni) == cache.peerVnis[vni].set

\* an allow-list is configured for peer p of vni
HasAllowList(vni, p) ==
    cache.peeredPrefixes[vni].ok /\ p \in DOMAIN cache.peeredPrefixes[vni].m

InAllowList(vni, p, dest) ==
    \E pfx \in cache.peeredPrefixes[vni].m[p] : PrefixContains(pfx, dest.Prefix.addr)

\* the peers a Standard route of vni for dest is to be propagated to
PropagationPeers(vni, dest) ==
    {p \in CurrentPeers(vni) : ~HasAllowList(vni, p) \/ InAllowList(vni, p, dest)}

RejectedByIPv4Only(dest) == config.IPv4Only /\ dest.IPVersion # "IPV4"

RoutesFor(dp, vni, dest) == {r \in RoutesOf(dp, vni) : r.prefix = dest.Prefix}

\* the status codes each call may answer with and have ignored
IgnorableFor(rpc) ==
    CASE rpc = "CreateRoute" -> {"ROUTE_EXISTS"}
      [] rpc = "CreateNeighborNat" -> {"ALREADY_EXISTS"}
      [] rpc = "CreateLoadBalancerTarget" -> {"ALREADY_EXISTS"}
      [] rpc = "DeleteRoute" -> {"NO_VNI", "ROUTE_NOT_FOUND"}
      [] rpc = "DeleteNeighborNat" -> {"NOT_FOUND"}
      [] rpc = "DeleteLoadBalancerTarget" -> {"NOT_FOUND", "NO_BACKIP", "NO_LB"}
      [] OTHER -> {}

\* the step before the last was the same call as the last one
Repeated(op) ==
    /\ last.op = op /\ prev.op = op
    /\ prev.vni = last.vni /\ prev.dest = last.dest /\ prev.hop = last.hop

(***************************************************************************)
(* C1: for a Standard next hop, AddRoute issues exactly one create-route   *)
(* into vni's own table and into the table of each current peer that has   *)
(* no allow-list or whose allow-list contains dest's address, and into no  *)
(* other VNI.                                                              *)
(***************************************************************************)
AddFanOutExact ==
    /\ TargetsOf(last, "CreateRoute") = {last.vni} \cup PropagationPeers(last.vni, last.dest)
    /\ Cardinality(CallsTo(last, "CreateRoute")) =
          Cardinality({last.vni} \cup PropagationPeers(last.vni, last.dest))
    /\ \A i \in CallsTo(last, "CreateRoute") : last.attempts[i].call.prefix = last.dest.Prefix

\* C1 as stated: for every destination
C1_AddFanOut_Stated ==
    (last.op = "AddRoute" /\ IsStandard(last)) => AddFanOutExact

\* C1 as amended: unless IPv4-only mode rejects the destination, in which case
\* no create-route is issued at all
C1_AddFanOut ==
    (last.op = "AddRoute" /\ IsStandard(last)) =>
        IF RejectedByIPv4Only(last.dest)
        THEN CallIdx(last) = {}
        ELSE AddFanOutExact

C1_Witness ==
    /\ last.op = "AddRoute" /\ IsStandard(last)
    /\ ~RejectedByIPv4Only(last.dest)
    /\ \E p, q \in CurrentPeers(last.vni) :
          /\ HasAllowList(last.vni, p) /\ ~InAllowList(last.vni, p, last.dest)
          /\ p \notin TargetsOf(last, "CreateRoute")
          /\ q \in TargetsOf(last, "CreateRoute")

(***************************************************************************)
(* C2: AddRoute immediately followed by RemoveRoute with the same          *)
(* arguments (Standard next hop, topology unchanged) leaves the route      *)
(* tables of vni and of its current peers as they were before the          *)
(* AddRoute, also when a route for dest already existed there.  Stated for *)
(* the runs in which the backend answers every call and the route being    *)
(* added was not already installed with this very next hop.                *)
(***************************************************************************)
InstalledAs(dp, v, l) ==
    [vni |-> v, prefix |-> l.dest.Prefix, nhVni |-> l.vni, nhIp |-> l.hop.TargetAddress]
        \in dp.routes

C2_RoundTrip ==
    [][(/\ last.op = "AddRoute" /\ IsStandard(last) /\ NoFaultIn(last)
        /\ last'.op = "RemoveRoute" /\ NoFaultIn(last')
        /\ last'.vni = last.vni /\ last'.dest = last.dest /\ last'.hop = last.hop
        /\ \A v \in {last.vni} \cup CurrentPeers(last.vni) : ~InstalledAs(pre, v, last))
       => \A v \in {last.vni} \cup CurrentPeers(last.vni) :
             RoutesOf(dataplane', v) = RoutesOf(pre, v)]_vars

(***************************************************************************)
(* C3: a second AddRoute with the same arguments, whose dataplane calls    *)
(* are all answered 'already exists', returns success like the first one,  *)
(* leaves the dataplane as the first call left it, and each table a        *)
(* create-route went to holds exactly one route for the destination.       *)
(***************************************************************************)
AnsweredOnlyAlreadyExists(l) ==
    /\ CallIdx(l) # {}
    /\ \A i \in CallIdx(l) :
          l.attempts[i].call.status \in {"ROUTE_EXISTS", "ALREADY_EXISTS"}

C3_AddIdempotent ==
    (Repeated("AddRoute") /\ ~prev.faulty /\ AnsweredOnlyAlreadyExists(last)) =>
        /\ prev.ok
        /\ last.errStrs = <<>>
        /\ dataplane = pre
        /\ \A v \in TargetsOf(last, "CreateRoute") :
              Cardinality(RoutesFor(dataplane, v, last.dest)) = 1

C3_Witness ==
    /\ Repeated("AddRoute") /\ ~prev.faulty /\ AnsweredOnlyAlreadyExists(last)
    /\ Cardinality(TargetsOf(last, "CreateRoute")) > 1

(***************************************************************************)
(* C4: within one AddRoute or RemoveRoute every realization attempt is     *)
(* made whatever the outcome of the others, the mutations of the attempts  *)
(* that succeeded are retained, and the call returns an error exactly when *)
(* some attempt returned an error that is not ignored.                     *)
(***************************************************************************)
AttemptTargets(l) == {l.attempts[i].target : i \in 1..Len(l.attempts)}

DueTargets(l) ==
    {l.vni} \cup
    IF ~IsStandard(l) THEN {}
    ELSE IF l.op = "AddRoute" THEN PropagationPeers(l.vni, l.dest)
    ELSE CurrentPeers(l.vni)

AttemptFailed(a) ==
    IF a.call = NoCall THEN a.err # NilErr
    ELSE a.call.status \notin ({"OK"} \cup IgnorableFor(a.call.rpc))

Retained(a) ==
    (a.call # NoCall /\ a.call.status = "OK") =>
        CASE a.call.rpc = "CreateRoute" ->
                [vni |-> a.target, prefix |-> a.call.prefix,
                 nhVni |-> a.call.nhVni, nhIp |-> a.call.nhIp] \in dataplane.routes
          [] a.call.rpc = "DeleteRoute" ->
                ~ \E r \in RoutesOf(dataplane, a.target) : r.prefix = a.call.prefix
          [] a.call.rpc = "CreateNeighborNat" -> a.call.nat \in dataplane.nats
          [] a.call.rpc = "DeleteNeighborNat" -> a.call.nat \notin dataplane.nats
          [] a.call.rpc = "CreateLoadBalancerTarget" ->
                [lb |-> a.call.lb, targetIP |-> a.call.targetIP] \in dataplane.lbTargets
          [] a.call.rpc = "DeleteLoadBalancerTarget" ->
                [lb |-> a.call.lb, targetIP |-> a.call.targetIP] \notin dataplane.lbTargets
          [] OTHER -> TRUE

C4_AllAttemptsAggregate ==
    IsRouteOp(last) =>
        /\ AttemptTargets(last) = DueTargets(last)
        /\ Len(last.attempts) = Cardinality(DueTargets(last))
        /\ \A i \in 1..Len(last.attempts) : Retained(last.attempts[i])
        /\ (last.errStrs # <<>>) <=>
              (\E i \in 1..Len(last.attempts) : AttemptFailed(last.attempts[i]))

C4_Witness ==
    /\ last.op = "AddRoute"
    /\ last.errStrs # <<>>
    /\ \E i, j \in 1..Len(last.attempts) :
          /\ i < j
          /\ Faulted(last.attempts[i])
          /\ last.attempts[j].call # NoCall
          /\ last.attempts[j].call.status = "OK"
          /\ Retained(last.attempts[j])

(***************************************************************************)
(* C5: a CleanupNotPeeredRoutes(vni) whose calls all succeed deletes from  *)
(* vni's table exactly the routes whose next-hop VNI is neither vni nor a  *)
(* member of vni's current peer set, and changes no other table.           *)
(***************************************************************************)
IsCleanup(l) == l.op = "CleanupNotPeeredRoutes"

KeptByCleanup(vni, r) == r.nhVni = vni \/ r.nhVni \in CurrentPeers(vni)

C5_CleanupExact ==
    (IsCleanup(last) /\ last.errStrs = <<>>) =>
        /\ RoutesOf(dataplane, last.vni) =
              {r \in RoutesOf(pre, last.vni) : KeptByCleanup(last.vni, r)}
        /\ \A v \in VNIs \ {last.vni} : RoutesOf(dataplane, v) = RoutesOf(pre, v)

(***************************************************************************)
(* C6: when the topology cache has no peer set for vni, a successful       *)
(* CleanupNotPeeredRoutes(vni) leaves in vni's table only routes whose     *)
(* next-hop VNI is vni.                                                    *)
(***************************************************************************)
C6_AbsentPeerSetCleansAll ==
    (IsCleanup(last) /\ last.errStrs = <<>> /\ ~cache.peerVnis[last.vni].ok) =>
        \A r \in RoutesOf(dataplane, last.vni) : r.nhVni = last.vni

(***************************************************************************)
(* C7: for a Standard next hop, RemoveRoute issues exactly one             *)
(* delete-route for dest into vni's own table and into the table of every  *)
(* current peer, whatever the peers' allow-lists say.                      *)
(***************************************************************************)
RemoveFanOutExact ==
    /\ TargetsOf(last, "DeleteRoute") = {last.vni} \cup CurrentPeers(last.vni)
    /\ Cardinality(CallsTo(last, "DeleteRoute")) =
          Cardinality({last.vni} \cup CurrentPeers(last.vni))
    /\ \A i \in CallsTo(last, "DeleteRoute") : last.attempts[i].call.prefix = last.dest.Prefix

\* C7 as stated: for every destination
C7_RemoveUnconditional_Stated ==
    (last.op = "RemoveRoute" /\ IsStandard(last)) => RemoveFanOutExact

\* C7 as amended: unless IPv4-only mode rejects the destination, in which case
\* no delete-route is issued at all
C7_RemoveUnconditional ==
    (last.op = "RemoveRoute" /\ IsStandard(last)) =>
        IF RejectedByIPv4Only(last.dest)
        THEN CallIdx(last) = {}
        ELSE RemoveFanOutExact

C7_Witness ==
    /\ last.op = "RemoveRoute" /\ IsStandard(last)
    /\ ~RejectedByIPv4Only(last.dest)
    /\ \E p \in CurrentPeers(last.vni) :
          /\ HasAllowList(last.vni, p) /\ ~InAllowList(last.vni, p, last.dest)
          /\ p \in TargetsOf(last, "DeleteRoute")

(***************************************************************************)
(* C8: RemoveRoute with a Standard next hop removes from vni's table and   *)
(* from each peer's table only a route for dest that has that next hop; a  *)
(* route for the same dest with another next hop stays in place.           *)
(***************************************************************************)
C8_DeleteKeyedByNextHop ==
    (last.op = "RemoveRoute" /\ IsStandard(last)) =>
        \A r \in pre.routes :
            (r.prefix = last.dest.Prefix
                /\ (r.nhVni # last.vni \/ r.nhIp # last.hop.TargetAddress))
            => r \in dataplane.routes

(***************************************************************************)
(* C9: a RemoveRoute whose dataplane calls are all answered with the       *)
(* ignorable codes of their kind returns success and leaves the dataplane  *)
(* unchanged; that is what happens when the route is installed neither in  *)
(* vni nor in a current peer; and a second RemoveRoute with the same       *)
(* arguments leaves the dataplane as the first one left it.                *)
(***************************************************************************)
AnsweredOnlyIgnorable(l) ==
    /\ CallIdx(l) # {}
    /\ \A i \in CallIdx(l) :
          l.attempts[i].call.status \in IgnorableFor(l.attempts[i].call.rpc)

\* nothing the RemoveRoute addresses is installed in dp
NotInstalled(dp, l) ==
    CASE l.hop.Type = "STANDARD" ->
            \A v \in {l.vni} \cup CurrentPeers(l.vni) : RoutesFor(dp, v, l.dest) = {}
      [] l.hop.Type = "NAT" ->
            ~ \E n \in dp.nats : NatKey(n) = NatKey(NatOf(l.vni, l.dest, l.hop))
      [] OTHER ->
            ~ \E t \in dp.lbTargets : t.targetIP = l.hop.TargetAddress

C9_RemoveIdempotent ==
    /\ (last.op = "RemoveRoute" /\ AnsweredOnlyIgnorable(last)) =>
          (last.errStrs = <<>> /\ dataplane = pre)
    /\ (last.op = "RemoveRoute" /\ CallIdx(last) # {} /\ NoFaultIn(last)
            /\ NotInstalled(pre, last)) =>
          AnsweredOnlyIgnorable(last)
    /\ (Repeated("RemoveRoute") /\ ~prev.faulty /\ NoFaultIn(last)) =>
          dataplane = pre

C9_Witness ==
    /\ Repeated("RemoveRoute") /\ prev.ok /\ AnsweredOnlyIgnorable(last)
    /\ Cardinality(TargetsOf(last, "DeleteRoute")) > 1
    /\ pre.routes # {}

(***************************************************************************)
(* C10: in IPv4-only mode AddRoute and RemoveRoute for a destination that  *)
(* is not IPv4 return an error and issue no dataplane call, neither for    *)
(* the local network nor for a peer, for every next-hop kind; the          *)
(* dataplane is unchanged.                                                 *)
(***************************************************************************)
C10_IPv4OnlyRejects ==
    (IsRouteOp(last) /\ config.IPv4Only /\ last.dest.IPVersion # "IPV4") =>
        /\ last.errStrs # <<>>
        /\ CallIdx(last) = {}
        /\ dataplane = pre

C10_Witness ==
    /\ IsRouteOp(last) /\ config.IPv4Only /\ last.dest.IPVersion # "IPV4"
    /\ Len(last.attempts) > 1
    /\ last.errStrs # <<>>

(***************************************************************************)
(* C11: for a LoadBalancerTarget next hop with no load-balancer server     *)
(* registered for (vni, destination address), AddRoute and RemoveRoute     *)
(* return an error and issue no dataplane call, whatever the               *)
(* preferred-network setting.                                              *)
(***************************************************************************)
IsLbTarget(l) == IsRouteOp(l) /\ l.hop.Type = "LOADBALANCER_TARGET"

LbServerRegistered(l) ==
    \E e \in cache.lbServers : e.vni = l.vni /\ e.ip = AddrString(l.dest.Prefix.addr)

\* a preferred network is configured and the target address of the hop is outside it
OutsidePreferred(l) ==
    /\ ~config.PreferredNetwork.nil
    /\ ~PrefixContains(config.PreferredNetwork.net, l.hop.TargetAddress)

C11_LbNoServer ==
    (IsLbTarget(last) /\ ~LbServerRegistered(last)) =>
        /\ last.errStrs # <<>>
        /\ CallIdx(last) = {}
        /\ dataplane = pre

C11_Witness ==
    /\ last.op = "AddRoute" /\ IsLbTarget(last) /\ ~LbServerRegistered(last)
    /\ ~RejectedByIPv4Only(last.dest)
    /\ OutsidePreferred(last)
    /\ last.errStrs # <<>>

(***************************************************************************)
(* C12: for a LoadBalancerTarget next hop with a registered server, when a *)
(* preferred network is configured and the target address lies outside it, *)
(* AddRoute and RemoveRoute return no error and issue no create or delete  *)
(* load-balancer-target call.                                              *)
(***************************************************************************)
C12_PreferredNetworkSkip ==
    (IsLbTarget(last) /\ LbServerRegistered(last) /\ ~RejectedByIPv4Only(last.dest)
        /\ OutsidePreferred(last)) =>
        /\ last.errStrs = <<>>
        /\ CallIdx(last) = {}

(***************************************************************************)
(* C13: AddRoute and RemoveRoute with a LoadBalancerTarget or NAT next hop *)
(* issue at most one dataplane call, for the originating vni, and none for *)
(* a peer; no route table and no NAT entry of another VNI changes.         *)
(***************************************************************************)
IsLbOrNat(l) == IsRouteOp(l) /\ l.hop.Type \in {"LOADBALANCER_TARGET", "NAT"}

C13_NoFanOutForLbNat ==
    IsLbOrNat(last) =>
        /\ Cardinality(CallIdx(last)) <= 1
        /\ Len(last.attempts) = 1
        /\ \A i \in 1..Len(last.attempts) : last.attempts[i].target = last.vni
        /\ \A i \in CallIdx(last) : last.attempts[i].call.vni = last.vni
        /\ dataplane.routes = pre.routes
        /\ {n \in dataplane.nats : n.vni # last.vni} = {n \in pre.nats : n.vni # last.vni}

C13_Witness ==
    /\ last.op = "AddRoute" /\ IsLbOrNat(last)
    /\ CurrentPeers(last.vni) # {}
    /\ \E i \in CallIdx(last) : last.attempts[i].call.status = "OK"
    /\ dataplane # pre

(***************************************************************************)
(* C18: with the topology unchanged and no route event in between, a       *)
(* CleanupNotPeeredRoutes(vni) that follows a successful one and whose     *)
(* calls the backend answers issues no delete, returns success and leaves  *)
(* the dataplane as the first run left it.                                 *)
(***************************************************************************)
CleanupRepeated ==
    /\ IsCleanup(last) /\ prev.op = "CleanupNotPeeredRoutes"
    /\ prev.vni = last.vni /\ prev.ok

C18_CleanupIdempotent ==
    (CleanupRepeated /\ NoFaultIn(last)) =>
        /\ CallsTo(last, "DeleteRoute") = {}
        /\ last.errStrs = <<>>
        /\ dataplane = pre

\* the first of the two runs deleted routes of the earlier announcements
C18_Witness ==
    /\ CleanupRepeated /\ NoFaultIn(last) /\ nSteps = 2
    /\ RoutesOf(EarlierEvents, last.vni) \ RoutesOf(dataplane, last.vni) # {}
    /\ RoutesOf(dataplane, last.vni) \subseteq RoutesOf(EarlierEvents, last.vni)
    /\ dataplane.routes # {}

(***************************************************************************)
(* Properties of the translation layer, stated over XlSpec.                *)
(***************************************************************************)
\* the last operation received a response (the RPC did not fail outright)
XlAnswered == xl.op # "none" /\ xl.err.kind # "transport"

\* C15: every operation of the translation layer whose response carries a
\* non-zero status code returns the status error with that code and message
\* and no result; listPrefixes included.
C15_StatusErrorTyped ==
    (XlAnswered /\ xl.resp.Error # 0) =>
        /\ xl.err = StatusError(xl.resp.Error, xl.resp.Message)
        /\ xl.res = NoResult

\* the last operation was getInterface and its response was successful
GotInterface == XlAnswered /\ xl.op = "GetInterface" /\ xl.resp.Error = 0

\* C16: getInterface on a successful response returns the parsed IPv4 field
\* as primary IPv4 address, the parsed IPv6 field as primary IPv6 address and
\* the parsed underlay field as underlay route, and fails with a parse error
\* if and only if one of the three fields is invalid; so an interface created
\* with distinct IPv4 and IPv6 addresses is read back with the same spec.
C16_GetInterfaceFields ==
    GotInterface =>
        LET p == xl.resp.payload
            ipv4 == ParseAddr(p.PrimaryIPv4Address)
            ipv6 == ParseAddr(p.PrimaryIPv6Address)
            underlay == ParseAddr(p.UnderlayRoute)
        IN  IF ipv4.ok /\ ipv6.ok /\ underlay.ok
            THEN /\ xl.err = XlNil
                 /\ xl.res.Spec.PrimaryIPv4Address = ipv4.addr
                 /\ xl.res.Spec.PrimaryIPv6Address = ipv6.addr
                 /\ xl.res.Status.UnderlayRoute = underlay.addr
            ELSE xl.err.kind = "parse" /\ xl.res = NoResult

\* the last operation was a create or delete given a zero-value address
XlInvalidArg ==
    CASE xl.op = "CreateInterface" ->
            \/ ~IsValid(xl.arg.Spec.PrimaryIPv4Address)
            \/ ~IsValid(xl.arg.Spec.PrimaryIPv6Address)
      [] xl.op = "CreateVirtualIP" -> ~IsValid(xl.arg.Spec.Address)
      [] xl.op = "CreatePrefix" -> ~IsValid(xl.arg.Spec.Prefix.addr)
      [] xl.op = "DeletePrefix" -> ~IsValid(xl.arg.Prefix.addr)
      [] xl.op \in {"CreateRoute", "DeleteRoute"} ->
            \/ ~IsValid(xl.arg.Spec.Prefix.addr)
            \/ ~IsValid(xl.arg.Spec.NextHop.Address)
      [] OTHER -> FALSE

\* C17: a create or delete operation of the translation layer given an
\* invalid (zero-value) address returns a validation error and sends no
\* request to the dataplane service.
C17_InvalidRejectedBeforeRpc ==
    XlInvalidArg => (xl.rpcs = <<>> /\ xl.err.kind = "validation")

\* C20: each operation of the translation layer issues exactly one RPC per
\* invocation, whether it succeeds or fails: no retry after a transport or
\* status error, no answer without a call, no second RPC.
C20_ExactlyOneRpc ==
    xl.op # "none" => Len(xl.rpcs) = 1

\* an operation has failed on its RPC, by transport or by status
C20_Witness ==
    /\ xl.op # "none"
    /\ xl.err.kind \in {"transport", "status"}
    /\ Len(xl.rpcs) = 1

\* an engine operation one of whose dataplane calls failed by transport or
\* with a status outside its ignore list has returned an error
EngineFailuresPropagate ==
    (last.op # "none" /\ ~NoFaultIn(last)) => last.errStrs # <<>>

\* an operation of the translation layer whose RPC failed by transport or
\* was answered with a non-zero status has returned an error
XlFailuresPropagate ==
    (xl.op # "none" /\ (xl.answer.kind = "transport" \/ xl.resp.Error # 0)) =>
        xl.err # XlNil

\* C14: a dataplane call that fails with a transport error is never ignored,
\* in AddRoute, RemoveRoute, CleanupNotPeeredRoutes or an operation of the
\* translation layer: the operation returns a non-nil error; so does one that
\* meets a status code outside the ignore list of the call.
C14_FailuresPropagate ==
    EngineFailuresPropagate /\ XlFailuresPropagate

(***************************************************************************)
(* Properties of concurrent invocations, stated over ConcSpec.             *)
(***************************************************************************)
\* both invocations have returned
BothReturned ==
    inv.procs # <<>> /\ \A i \in 1..2 : inv.procs[i].pc = "done"

\* invocation p run alone from dp, its peers visited in the order given
RunAlone(p, dp, peers) ==
    IF p.op = "AddRoute"
    THEN AddRouteRun(dp, p.vni, p.dest, p.hop, NoFault, peers)
    ELSE RemoveRouteRun(dp, p.vni, p.dest, p.hop, NoFault, peers)

\* the dataplane and the two results are those of running invocation first
\* and then invocation second, one after the other, from the dataplane the
\* invocations started on
EqualsSequential(first, second) ==
    \E peersFirst \in Perms(GetPeerVnis(inv.procs[first].vni).set),
       peersSecond \in Perms(GetPeerVnis(inv.procs[second].vni).set) :
        LET r1 == RunAlone(inv.procs[first], inv.dp0, peersFirst)
            r2 == RunAlone(inv.procs[second], r1.dp, peersSecond)
        IN  /\ dataplane = r2.dp
            /\ inv.procs[first].errStrs = r1.errStrs
            /\ inv.procs[second].errStrs = r2.errStrs

\* C19: invocations of AddRoute/RemoveRoute that run concurrently for
\* different (VNI, destination) keys are independent: whatever the
\* interleaving of their dataplane calls, the final dataplane and the results
\* returned are those of some sequential execution of the same invocations,
\* also when their VNIs are peered with each other.
C19_ConcurrentIndependent ==
    BothReturned => (EqualsSequential(1, 2) \/ EqualsSequential(2, 1))

\* the part that holds: invocations for different destinations are
\* independent, whatever the peering of their VNIs
DifferentDestinationsIndependent ==
    (BothReturned /\ inv.procs[1].dest # inv.procs[2].dest) =>
        (EqualsSequential(1, 2) \/ EqualsSequential(2, 1))

(***************************************************************************)
(* The create-route calls of AddRoute.                                     *)
(***************************************************************************)
\* the create-route calls of the last AddRoute carry dest's prefix, the
\* target address of the hop and nhVni as next-hop VNI
CreateRoutesCarry(nhVni) ==
    \A i \in CallsTo(last, "CreateRoute") :
        /\ last.attempts[i].call.prefix = last.dest.Prefix
        /\ last.attempts[i].call.nhIp = last.hop.TargetAddress
        /\ last.attempts[i].call.nhVni = nhVni

\* C22 as stated: for a Standard next hop, every create-route call of
\* AddRoute carries the destination prefix and a next hop whose VNI is the
\* hop's targetVNI and whose address is the hop's targetAddress.
C22_CreateRouteNextHop_Stated ==
    (last.op = "AddRoute" /\ IsStandard(last)) => CreateRoutesCarry(last.hop.TargetVNI)

\* C22 as amended: the next-hop VNI of every create-route call is the VNI the
\* route was announced in (the vni argument of AddRoute), not the hop's
\* targetVNI; prefix and address are as stated.
C22_CreateRouteNextHop ==
    (last.op = "AddRoute" /\ IsStandard(last)) => CreateRoutesCarry(last.vni)

\* an AddRoute whose hop names another VNI than the announcing one has issued
\* a local create-route and one into a peer
C22_Witness ==
    /\ last.op = "AddRoute" /\ IsStandard(last)
    /\ last.hop.TargetVNI # last.vni
    /\ Cardinality(TargetsOf(last, "CreateRoute")) >= 2

(***************************************************************************)
(* Virtual IPs of the translation layer.                                   *)
(***************************************************************************)
\* the last operation was a createVirtualIP of a valid address that succeeded
CreatedVirtualIP ==
    /\ xl.op = "CreateVirtualIP" /\ xl.err = XlNil
    /\ IsValid(xl.arg.Spec.Address)

\* C23: virtual-IP operations are keyed by the owning interface id: the
\* request of createVirtualIP identifies the interface of the VirtualIP's
\* metadata, as the requests of getVirtualIP and deleteVirtualIP do, so that
\* after createVirtualIP(v) the service holds v's address for v's interface
\* and getVirtualIP(v.interfaceID) returns it.
C23_VirtualIPKeyedByInterface ==
    /\ xl.op \in {"GetVirtualIP", "DeleteVirtualIP"} =>
          xl.rpcs[1].req.InterfaceID = xl.arg
    /\ xl.op = "CreateVirtualIP" =>
          xl.rpcs[1].req.InterfaceID = xl.arg.InterfaceUID
    /\ CreatedVirtualIP =>
          [InterfaceID |-> xl.arg.InterfaceUID,
           Address |-> AddrString(xl.arg.Spec.Address)] \in backend.vips

(***************************************************************************)
(* The encoding of prefixes in requests.                                   *)
(***************************************************************************)
\* the dpdkproto.Prefix of the request the last operation sent
SentPrefix ==
    IF xl.op \in {"CreateRoute", "DeleteRoute"}
    THEN xl.rpcs[1].req.Route.Prefix
    ELSE xl.rpcs[1].req.Prefix

\* the prefix the last operation was given
GivenPrefix ==
    CASE xl.op \in {"CreateRoute", "DeleteRoute"} -> xl.arg.Spec.Prefix
      [] xl.op = "CreatePrefix" -> xl.arg.Spec.Prefix
      [] xl.op = "DeletePrefix" -> xl.arg.Prefix

\* the address field holds the string of the address alone, the length goes
\* in the length field
AddressAlone ==
    /\ SentPrefix.Address = AddrString(GivenPrefix.addr)
    /\ SentPrefix.PrefixLength = Uint32(GivenPrefix.bits)

\* C28: the create-route and delete-route requests encode the destination
\* prefix as the create-prefix and delete-prefix requests do: the address
\* field holds the canonical string of the prefix's address alone and the
\* length is carried only in the length field; and createRoute and
\* deleteRoute build the same route message for the same Route.
C28_RoutePrefixEncoding ==
    /\ (xl.op \in {"CreateRoute", "DeleteRoute", "CreatePrefix", "DeletePrefix"}
            /\ IsValid(GivenPrefix.addr)) => AddressAlone
    /\ xl.op \in {"CreateRoute", "DeleteRoute"} =>
            xl.rpcs[1].req = CreateRouteRun(EmptyBackend, xl.arg, Healthy).rpcs[1].req

(***************************************************************************)
(* What a successful AddRoute leaves in the tables.                        *)
(***************************************************************************)
\* the last operation was an AddRoute with a Standard next hop that returned nil
AddSucceeded ==
    last.op = "AddRoute" /\ IsStandard(last) /\ last.errStrs = <<>>

\* the tables the last AddRoute is to reach: vni's own and those of the peers
\* the route is propagated to
FanOutTables == {last.vni} \cup PropagationPeers(last.vni, last.dest)

\* table t holds a route for dest via the target address of the hop
HoldsViaHop(t) ==
    \E r \in RoutesFor(dataplane, t, last.dest) : r.nhIp = last.hop.TargetAddress

\* C24 as stated: after a successful AddRoute with a Standard next hop the
\* table of vni and of every peer fanned out to holds a route for dest via
\* the hop's target address, also when a route for dest with another next
\* hop was installed before.
C24_AddInstallsHop_Stated ==
    AddSucceeded => \A t \in FanOutTables : HoldsViaHop(t)

\* C24 as amended: each of these tables holds a route for dest; it is the
\* route via the hop's target address where the table held no route for dest
\* before the call, and the route installed before, unchanged, where it did.
C24_AddInstallsHop ==
    AddSucceeded =>
        \A t \in FanOutTables :
            /\ RoutesFor(dataplane, t, last.dest) # {}
            /\ IF RoutesFor(pre, t, last.dest) = {}
               THEN HoldsViaHop(t)
               ELSE RoutesFor(dataplane, t, last.dest) = RoutesFor(pre, t, last.dest)

\* a successful AddRoute that met a route via another next hop in one table
\* and installed its own in another
C24_Witness ==
    /\ AddSucceeded
    /\ \E t \in FanOutTables : RoutesFor(pre, t, last.dest) # {} /\ ~HoldsViaHop(t)
    /\ \E t \in FanOutTables : RoutesFor(pre, t, last.dest) = {} /\ HoldsViaHop(t)

(***************************************************************************)
(* Properties of a cleanup pass running beside route events, stated over   *)
(* CleanSpec.                                                              *)
(***************************************************************************)
\* a route of table vni that cleanup must keep: its next-hop VNI is vni
\* itself or a current peer of vni
Legitimate(vni, route) ==
    route.nhVni = vni \/ route.nhVni \in CurrentPeers(vni)

\* C25: a cleanup pass running interleaved with AddRoute/RemoveRoute never
\* deletes a route that, at the moment of the delete call, has a next-hop VNI
\* equal to vni or to a current peer of vni: a destination whose stale route
\* was listed and then replaced by a legitimate route is not removed.
C25_CleanupSparesLegitimate ==
    \A route \in cl.deleted : ~Legitimate(cl.vni, route)

\* the pass has returned
CleanupReturned == cl.pc = "done"

\* the attempts of the pass that ended in an error
FailedAttempts == {i \in 1..Len(cl.attempts) : cl.attempts[i].err # NilErr}

\* the stale routes of the listing, and those of them the pass called delete for
StaleListed ==
    {cl.listing[i] : i \in {j \in 1..Len(cl.listing) : IsNotPeered(cl.vni, cl.listing[j])}}
DeleteCalls ==
    {i \in 1..Len(cl.attempts) : cl.attempts[i].call.rpc = "DeleteRoute"}

\* the listing failed
ListFailed ==
    cl.attempts # <<>> /\ cl.attempts[1].call.rpc = "ListRoutes"

\* the delete calls of the pass were all answered OK or with an ignored code,
\* one of them with an ignored code
MetIgnoredOnly ==
    /\ FailedAttempts = {}
    /\ \E i \in DeleteCalls : cl.attempts[i].call.status \in DeleteRouteIgnore

\* C27: CleanupNotPeeredRoutes is fail-fast.  If the listing fails it returns
\* an error and issues no delete.  If a delete fails with an error that is not
\* ignored it returns that error at once: no delete is issued for the stale
\* routes that follow in the listing, and they remain installed.  An answer
\* 'no such VNI' or 'route not found' to a delete does not stop the pass.
C27_CleanupFailFast ==
    CleanupReturned =>
        /\ ListFailed =>
              /\ cl.errStrs # <<>>
              /\ DeleteCalls = {}
              /\ cl.deleted = {}
        /\ (~ListFailed /\ FailedAttempts # {}) =>
              /\ FailedAttempts = {Len(cl.attempts)}
              /\ cl.errStrs = <<cl.attempts[Len(cl.attempts)].err>>
              /\ Len(cl.attempts) + Len(cl.rest) <= Len(cl.listing)
              /\ nSteps = 0 =>
                    \A i \in 1..Len(cl.rest) : cl.rest[i] \in dataplane.routes
        /\ FailedAttempts = {} =>
              /\ cl.errStrs = <<>>
              /\ cl.rest = <<>>
              /\ Cardinality(DeleteCalls) = Cardinality(StaleListed)

\* a pass stopped by a failed delete with a stale route still to come
C27_Witness ==
    /\ CleanupReturned /\ ~ListFailed /\ FailedAttempts # {}
    /\ \E i \in 1..Len(cl.rest) : IsNotPeered(cl.vni, cl.rest[i])

(***************************************************************************)
(* Fan-out and cleanup, stated over Spec.                                  *)
(***************************************************************************)
\* the routes the last AddRoute installed carry the announcing VNI as
\* next-hop VNI
InstalledCarryOrigin ==
    last.op = "AddRoute" =>
        \A r \in dataplane.routes \ pre.routes : r.nhVni = last.vni

\* a successful cleanup of p keeps every route fanned out from a VNI that is
\* in p's peer set
CleanupKeepsPeered ==
    (IsCleanup(last) /\ last.errStrs = <<>>) =>
        \A r \in RoutesOf(pre, last.vni) :
            r.nhVni \in CurrentPeers(last.vni) => r \in dataplane.routes

\* a successful cleanup of p leaves no route fanned out from a VNI that is
\* not in p's peer set
CleanupRemovesUnpeered ==
    (IsCleanup(last) /\ last.errStrs = <<>>) =>
        \A r \in RoutesOf(dataplane, last.vni) :
            r.nhVni # last.vni => r.nhVni \in CurrentPeers(last.vni)

\* C26: fan-out and cleanup agree: a route that AddRoute(v, dest, hop)
\* installs into a peer p carries a next-hop VNI that cleanup of p regards as
\* not stale as long as v is in p's peer set, so cleanup removes no route a
\* fan-out against the current topology installs; and once v is no longer in
\* p's peer set, cleanup of p removes every route fanned out from v into p.
C26_FanOutCleanupAgree ==
    InstalledCarryOrigin /\ CleanupKeepsPeered /\ CleanupRemovesUnpeered

(***************************************************************************)
(* C21: convergence after a fan-out that raced with a topology change.     *)
(***************************************************************************)
\* the race is over: the event was delivered again and every VNI was cleaned
Settled == race.phase = "redelivered" /\ race.cleaned = VNIs

\* what a fan-out of the event against the stable topology produces
StableFanOut ==
    AddRouteRun(EmptyDataplane, race.vni, race.dest, race.hop, NoFault,
                CHOOSE peers \in Perms(GetPeerVnis(race.vni).set) : TRUE).dp

\* no route of the event is left in a peer whose allow-list excludes it
NoneExcluded ==
    \A t \in VNIs \ {race.vni} :
        ~PeerAllowed(race.vni, t, race.dest)
            => ~\E r \in RoutesOf(dataplane, t) : r.nhVni = race.vni

\* no route of the event is left in a VNI the announcing VNI no longer peers with
NoneRevoked ==
    \A t \in VNIs \ {race.vni} :
        t \notin GetPeerVnis(race.vni).set
            => ~\E r \in RoutesOf(dataplane, t) : r.nhVni = race.vni

\* C21: once the topology is stable, the event has been delivered again and
\* every VNI has had a cleanup pass, each table holds what a fan-out against
\* the stable topology would have produced; no route is left in a peer whose
\* allow-list excludes the destination or whose peering was revoked
C21_RaceConverges ==
    Settled =>
        /\ \A t \in VNIs : RoutesOf(dataplane, t) = RoutesOf(StableFanOut, t)
        /\ NoneExcluded
        /\ NoneRevoked

====
